---- MODULE Spec2Model ----
(***************************************************************************)
(* Availability search and multi-service booking of the calendar routes    *)
(* (src/src/routes/calendar.ts) with the token client (src/src/ghl.ts) and *)
(* the directory store (src/src/db.ts).                                    *)
(*                                                                         *)
(* Time is counted in minutes.  An instant is the number of minutes since  *)
(* 00:00 UTC of day 0 (what Date.getTime() returns, divided by 60000).     *)
(* A slot is the ISO string the remote calendar returns, written in the    *)
(* calendar's timezone ("2026-02-15T09:00:00-10:00"); it is modelled by    *)
(* the wall-clock minute it spells, so that the date key, the hour and the *)
(* minute the code reads off the string are those of that wall clock, and  *)
(* Date.parse of it is the wall clock minus the calendar's UTC offset.     *)
(***************************************************************************)
EXTENDS Integers, Sequences, FiniteSets, TLC

VARIABLES
    realNow,          \* the instant of the request (Date.now())
    calOff,           \* UTC offset of installation.timezone, minutes
    srvOff,           \* UTC offset of the server process' timezone, minutes
    syncedCalendars,  \* table synced_calendars: calendar_id -> row
    defaultCalendar,  \* installation.calendar_id, <<>> when null
    plPc,             \* findPackageDayAvailability: position
    plServices,       \* services (pkg.services)
    plPref,           \* timePreference
    plReqDate,        \* requestedDate, <<>> when null
    plMaxResults,     \* maxResults
    plServiceCalendars, \* serviceCalendars: service -> calendar ids
    plToFetch,        \* allCalendarIds not fetched yet
    plCalendarSlots,  \* calendarSlots: calendar id -> date key -> slots
    plExamined,       \* date keys whose day-fit scan ran, in order
    plResults,        \* results
    bkPc,             \* /book-package: position
    bkServices,       \* pkg.services
    bkPlan,           \* packagePlan, <<>> when null
    bkI,              \* loop index i (1-based)
    bkRetry,          \* originalRequest._retry of the request in flight
    bkAppointments,   \* appointments
    bkAllSuccessful,  \* allSuccessful
    bkResponse,       \* the response sent, <<>> before
    bkCalls,          \* remote calls sent by the booking loop, in order
    rmtInFlight,      \* create-appointment requests not answered yet
    rmtAppointments,  \* appointments the remote calendar holds, by step
    avPc,             \* /check-availability (service mode): position
    avPref,           \* time_preference, <<>> when absent
    avTargetMins,     \* targetMins, <<>> when null
    avDateFilter,     \* the ISO date of requested_date, <<>> when absent
    avStartAfter,     \* start_after, <<>> when absent
    avCalendars,      \* calendarsToCheck
    avDaysAhead,      \* daysAhead of the fetch awaited
    avAvailability,   \* availabilityByDate
    avResponse,       \* the response sent, <<>> before
    avFetched,        \* the windows fetched and what each yielded, in order
    avFailed,         \* calendars whose slot fetch threw
    rmtHeld,          \* free slots the remote calendar holds, by calendar
    ftPc,             \* fetchSlotsForCalendar, per calendar: position
    ftLog,            \* per calendar: requests sent and refreshes awaited
    tokenExpired,     \* isTokenExpired(installation.token_expires_at)
    refreshInFlight,  \* refreshPromises holds a refresh of the location
    scNow,            \* Date.now() of the schedule clock, minutes
    scheduleCache,    \* scheduleCache: calendar -> <<>> or <<entry>>
    scCall,           \* per caller: the request using getCalendarSchedule
    scLast,           \* per calendar: the last fetch that returned, <<>> if none
    teamMembers,      \* synced_team_members rows, in priority order
    serviceMappings,  \* service_mappings rows
    stPc,             \* /check-availability with staff filters: position
    stRequest,        \* its request body, <<>> before the request
    stResolved,       \* calendarsToCheck before the gender filter
    stEntries,        \* calendarsToCheck the fetches run over
    stDaysAhead,      \* the window being fetched
    stResponse,       \* <<>> or <<the response>>
    stSent,           \* free-slots requests sent, in order
    stHeld,           \* calendar -> free slots the remote calendar holds
    dtCall,           \* a request with a date phrase: <<>> or <<its outcome>>
    svPc,             \* /book in service mode: position
    svRequest,        \* its request body, <<>> before the request
    svResolved,       \* resolvedCalendarId, slotDuration, slotBuffer
    svNotes,          \* appointmentNotes, <<>> when empty
    svRetry,          \* originalRequest._retry of the request in flight
    svContactId,      \* contactId, <<>> before the upsert answered
    svAppointmentId,  \* appointmentId, <<>> when null
    svCreated,        \* the remote calendar created the appointment
    svNoted,          \* <<>>, or <<whether the note post succeeded>>
    svResponse,       \* the response sent, <<>> before
    svCalls,          \* remote calls sent by the handler, in order
    tmCall,           \* a request with a time text: <<>> or <<its outcome>>
    rwCall,           \* the last getCalendarSchedule call: <<>> or <<its outcome>>
    rwSource,         \* per calendar: <<>>, or <<the response its entry was built from>>
    rfCaller,         \* per caller of refreshAccessToken: position, resource, promise awaited, outcome
    refreshPromises,  \* refreshPromises: resource -> <<>> or <<the caller that made the promise>>
    rfPromise,        \* per caller: the state of the promise its _doRefresh made
    tokenCalls,       \* per resource: refresh posts to the token endpoint not answered yet
    tokenCallsMade,   \* per resource: refresh posts sent so far
    syCaller,         \* per caller of syncLocation: position, location, error returned,
                      \* whether its write of true and then of false reached the store
    syncInProgress,   \* sync_status.sync_in_progress, per location
    syncedBy,         \* per location: <<>> or <<the caller whose rows the synced tables hold>>
    syLog,            \* per location: the clears and rewrites of its synced tables, in order
    rsPc,             \* syncLocation on the tables of one location: position
    rsRemote,         \* <<>>, or <<the calendars the remote answered with>>
    rsGenders,        \* existingGenders: <<>>, or <<the rows read that carry a gender>>
    rsWrites,         \* the upserts of upsertSyncedCalendars still to make, in order
    rsBefore,         \* <<>>, or <<the synced tables when syncLocation was called>>
    rdSeen,           \* <<>>, or <<what the last calendar resolution of a request found>>
    bkSelected        \* <<>>, or <<the dates the package booking request arrived with>>

envVars == <<realNow, calOff, srvOff>>
dbVars == <<syncedCalendars, defaultCalendar>>
planVars == <<plPc, plServices, plPref, plReqDate, plMaxResults,
              plServiceCalendars, plToFetch, plCalendarSlots, plExamined,
              plResults>>
bookVars == <<bkPc, bkServices, bkPlan, bkI, bkRetry, bkAppointments,
              bkAllSuccessful, bkResponse, bkCalls, rmtInFlight,
              rmtAppointments>>
availVars == <<avPc, avPref, avTargetMins, avDateFilter, avStartAfter, avCalendars,
               avDaysAhead, avAvailability, avResponse, avFetched, avFailed,
               rmtHeld>>
fetchVars == <<ftPc, ftLog, tokenExpired, refreshInFlight>>
cacheVars == <<scNow, scheduleCache, scCall, scLast>>
dirVars == <<teamMembers, serviceMappings>>
staffVars == <<stPc, stRequest, stResolved, stEntries, stDaysAhead, stResponse,
               stSent, stHeld>>
dateVars == <<dtCall>>
svVars == <<svPc, svRequest, svResolved, svNotes, svRetry, svContactId,
            svAppointmentId, svCreated, svNoted, svResponse, svCalls>>
timeVars == <<tmCall>>
refVars == <<rwCall, rwSource>>
rfVars == <<rfCaller, refreshPromises, rfPromise, tokenCalls, tokenCallsMade>>
syncVars == <<syCaller, syncInProgress, syncedBy, syLog>>
rsVars == <<rsPc, rsRemote, rsGenders, rsWrites, rsBefore, rdSeen>>
restVars == <<rsVars, bkSelected>>
moreVars == <<svVars, timeVars, refVars, rfVars, syncVars, restVars>>
vars == <<envVars, dbVars, planVars, bookVars, availVars, fetchVars, cacheVars, dirVars, staffVars, dateVars, moreVars>>

----------------------------------------------------------------------------
(* Bounds of the model *)

MaxPkgLen == 2
MaxRespSlots == 2
MaxClock == 120

Services == {"s1", "s2"}
Calendars == {"calA", "calB"}
CalOrder == <<"calA", "calB">>
TimePreferences == {"morning", "afternoon", "any"}
MinutesPerDay == 24 * 60

(* Program constants *)
BUFFER_MS == 15
FirstWindow == 7
SecondWindow == 14
LastWindow == 30
MaxSlotsDefault == 3
MaxSlotsWithTime == 5
SCHEDULE_CACHE_TTL == 60
DAYS_TO_SEARCH == 14
DefaultSlotDuration == 60
DefaultSlotBuffer == 15

----------------------------------------------------------------------------
(* Sequences *)

Range(s) == {s[i] : i \in DOMAIN s}

Max2(a, b) == IF a >= b THEN a ELSE b

Abs(a) == IF a >= 0 THEN a ELSE 0 - a

\* Array.prototype.sort with a comparator on keys[i]: ascending and stable
StableSort(seq, keys) ==
    [k \in 1..Len(seq) |->
        seq[CHOOSE i \in 1..Len(seq) :
                Cardinality({j \in 1..Len(seq) :
                    keys[j] < keys[i] \/ (keys[j] = keys[i] /\ j < i)}) = k - 1]]

\* the members of a set of numbers in ascending order
Ascending(S) ==
    [k \in 1..Cardinality(S) |->
        CHOOSE x \in S : Cardinality({y \in S : y < x}) = k - 1]

RECURSIVE Concat(_, _)
Concat(seqs, k) ==
    IF k > Len(seqs) THEN <<>> ELSE seqs[k] \o Concat(seqs, k + 1)

Take(seq, n) == IF Len(seq) <= n THEN seq ELSE SubSeq(seq, 1, n)

SeqsUpTo(S, n) == UNION {[1..k -> S] : k \in 0..n}

DistinctSeqsUpTo(S, n) ==
    {s \in SeqsUpTo(S, n) : \A i, j \in DOMAIN s : i # j => s[i] # s[j]}

----------------------------------------------------------------------------
(* Dates and slots *)

\* localNow.getTime(): the calendar's wall clock read back as server time
LocalNowMs == realNow + calOff - srvOff

\* new Date(dateKey + "T00:00:00").getTime(): midnight in server time
ServerMidnight(dateKey) == dateKey * MinutesPerDay - srvOff

\* d.toISOString().split("T")[0]: the UTC date of an instant
ToISODate(ms) == ms \div MinutesPerDay

\* new Date(slot).getTime()
SlotEpoch(slot) == slot - calOff

\* the date key the remote calendar files a slot under
SlotDateKey(slot) == slot \div MinutesPerDay

\* the hour and the minute spelled by the slot string, T(\d{2}):(\d{2})
SlotHour(slot) == (slot % MinutesPerDay) \div 60
SlotMinute(slot) == slot % 60

----------------------------------------------------------------------------
(* Directory store *)

getSyncedCalendarsForService(service) ==
    SelectSeq(CalOrder, LAMBDA c :
        /\ c \in DOMAIN syncedCalendars
        /\ syncedCalendars[c].is_active
        /\ service \in syncedCalendars[c].offers)

getCalendarTiming(calendarId) ==
    LET has == calendarId \in DOMAIN syncedCalendars
        dur == IF has THEN syncedCalendars[calendarId].slot_duration ELSE 0
        buf == IF has THEN syncedCalendars[calendarId].slot_buffer ELSE 0
    IN [duration |-> IF dur # 0 THEN dur ELSE DefaultSlotDuration,
        buffer |-> IF buf # 0 THEN buf ELSE DefaultSlotBuffer]

----------------------------------------------------------------------------
(* Package day-fit planner: findPackageDayAvailability *)

\* datesToCheck[i]: setDate(startDate.getDate() + i) read back as a UTC date
datesToCheck(requestedDate, i) ==
    LET startDate == IF requestedDate # <<>>
                     THEN ServerMidnight(requestedDate[1])
                     ELSE LocalNowMs
    IN ToISODate(startDate + (i - 1) * MinutesPerDay)

resolveServiceCalendars(service) ==
    LET syncedCals == getSyncedCalendarsForService(service)
    IN IF Len(syncedCals) > 0 THEN syncedCals ELSE defaultCalendar

matchesTimePreference(timePreference, slot) ==
    LET localHour == SlotHour(slot)
    IN /\ ~(timePreference = "morning" /\ localHour >= 12)
       /\ ~(timePreference = "afternoon" /\ localHour < 12)

\* slotQualifies with the cursor test one buffer too lenient
slotQualifies_Lenient(timePreference, minStartTimeMs, slot) ==
    /\ ~(SlotEpoch(slot) + BUFFER_MS < minStartTimeMs)
    /\ matchesTimePreference(timePreference, slot)

\* slotQualifies with a slot exactly at the cursor refused
slotQualifies_Exclusive(timePreference, minStartTimeMs, slot) ==
    /\ SlotEpoch(slot) > minStartTimeMs
    /\ matchesTimePreference(timePreference, slot)

slotQualifies(timePreference, minStartTimeMs, slot) ==
    /\ ~(SlotEpoch(slot) < minStartTimeMs)
    /\ matchesTimePreference(timePreference, slot)

\* index of the first qualifying slot of dateSlots, 0 when there is none
RECURSIVE firstQualifying(_, _, _, _)
firstQualifying(dateSlots, k, timePreference, minStartTimeMs) ==
    IF k > Len(dateSlots) THEN 0
    ELSE IF slotQualifies(timePreference, minStartTimeMs, dateSlots[k]) THEN k
    ELSE firstQualifying(dateSlots, k + 1, timePreference, minStartTimeMs)

dateSlotsOf(calendarSlots, calendarId, dateKey) ==
    IF calendarId \in DOMAIN calendarSlots
       /\ dateKey \in DOMAIN calendarSlots[calendarId]
    THEN calendarSlots[calendarId][dateKey]
    ELSE <<>>

\* the inner loops of one service: first calendar with a qualifying slot
RECURSIVE findSlotForService(_, _, _, _, _, _)
findSlotForService(cals, c, calendarSlots, dateKey, timePreference, minStartTimeMs) ==
    IF c > Len(cals) THEN <<>>
    ELSE LET dateSlots == dateSlotsOf(calendarSlots, cals[c], dateKey)
             k == firstQualifying(dateSlots, 1, timePreference, minStartTimeMs)
         IN IF k # 0
            THEN LET timing == getCalendarTiming(cals[c])
                     slotMs == SlotEpoch(dateSlots[k])
                 IN <<[startTime |-> dateSlots[k],
                       endTime |-> slotMs + timing.duration,
                       calendar_id |-> cals[c],
                       next |-> slotMs + timing.duration + timing.buffer]>>
            ELSE findSlotForService(cals, c + 1, calendarSlots, dateKey,
                                    timePreference, minStartTimeMs)

\* the loop over the services that, when a later service finds no slot,
\* goes back and tries the next qualifying slot of the service before
fitServices_Backtracking(services, serviceCalendars, calendarSlots, dateKey, timePreference, fromMs) ==
    LET Placements(s, minStartTimeMs) ==
            LET cals == serviceCalendars[s]
                RECURSIVE ofCal(_)
                ofCal(c) ==
                    IF c > Len(cals) THEN <<>>
                    ELSE LET dateSlots == dateSlotsOf(calendarSlots, cals[c], dateKey)
                             timing == getCalendarTiming(cals[c])
                             ok == SelectSeq(dateSlots, LAMBDA slot :
                                       slotQualifies(timePreference, minStartTimeMs, slot))
                         IN [k \in DOMAIN ok |->
                                [service |-> s, startTime |-> ok[k],
                                 endTime |-> SlotEpoch(ok[k]) + timing.duration,
                                 calendar_id |-> cals[c]]] \o ofCal(c + 1)
            IN ofCal(1)
        RECURSIVE fit(_, _)
        fit(i, minStartTimeMs) ==
            IF i > Len(services) THEN [dateWorks |-> TRUE, plan |-> <<>>]
            ELSE LET tries == Placements(services[i], minStartTimeMs)
                     outcome == [k \in DOMAIN tries |->
                                    fit(i + 1, tries[k].endTime
                                        + getCalendarTiming(tries[k].calendar_id).buffer)]
                     good == {k \in DOMAIN tries : outcome[k].dateWorks}
                 IN IF good = {} THEN [dateWorks |-> FALSE, plan |-> <<>>]
                    ELSE LET k == CHOOSE g \in good : \A h \in good : g <= h
                         IN [dateWorks |-> TRUE,
                             plan |-> <<tries[k]>> \o outcome[k].plan]
    IN fit(1, fromMs)

\* the loop over the services on one date, from service i on with the
\* cursor minStartTimeMs: dateWorks and the steps placed
fitServices(services, serviceCalendars, calendarSlots, dateKey, timePreference, startMs) ==
    LET fit[i \in Nat, minStartTimeMs \in Int] ==
            IF i > Len(services) THEN [dateWorks |-> TRUE, plan |-> <<>>]
            ELSE LET found == findSlotForService(serviceCalendars[services[i]],
                                  1, calendarSlots, dateKey, timePreference,
                                  minStartTimeMs)
                 IN IF found = <<>> THEN [dateWorks |-> FALSE, plan |-> <<>>]
                    ELSE LET rest == fit[i + 1, found[1].next]
                         IN [dateWorks |-> rest.dateWorks,
                             plan |-> <<[service |-> services[i],
                                         startTime |-> found[1].startTime,
                                         endTime |-> found[1].endTime,
                                         calendar_id |-> found[1].calendar_id]>>
                                      \o rest.plan]
    IN fit[1, startMs]

dayFit(services, serviceCalendars, calendarSlots, dateKey, timePreference) ==
    fitServices(services, serviceCalendars, calendarSlots, dateKey,
        timePreference,
        Max2(LocalNowMs + BUFFER_MS, ServerMidnight(dateKey)))

\* the test before each date with the limit on accepted dates left out
scanEnds_AllDates(d, n, maxResults) == d > DAYS_TO_SEARCH

\* the test before each date: the dates are used up or maxResults dates
\* have been accepted
scanEnds(d, n, maxResults) == d > DAYS_TO_SEARCH \/ n >= maxResults

\* the loop over datesToCheck from entry d on with n dates accepted: the
\* results and the dates examined
scanDates(requestedDate, services, serviceCalendars, calendarSlots, timePreference, maxResults) ==
    LET scan[d \in Nat, n \in Nat] ==
            IF scanEnds(d, n, maxResults)
            THEN [results |-> <<>>, examined |-> <<>>]
            ELSE LET dateKey == datesToCheck(requestedDate, d)
                     fit == dayFit(services, serviceCalendars, calendarSlots,
                                   dateKey, timePreference)
                     plan == fit.plan
                     accept == fit.dateWorks /\ Len(plan) = Len(services)
                     rest == scan[d + 1, IF accept THEN n + 1 ELSE n]
                 IN [results |-> IF accept
                                 THEN <<[date |-> dateKey, slots |-> plan]>>
                                      \o rest.results
                                 ELSE rest.results,
                     examined |-> <<dateKey>> \o rest.examined]
    IN scan[1, 0]

\* allCalendarIds, in insertion order
RECURSIVE allCalendarIds(_, _, _)
allCalendarIds(services, i, serviceCalendars) ==
    IF i > Len(services) THEN <<>>
    ELSE LET rest == allCalendarIds(services, i + 1, serviceCalendars)
             mine == serviceCalendars[services[i]]
         IN mine \o SelectSeq(rest, LAMBDA c : c \notin Range(mine))

----------------------------------------------------------------------------
(* What the remote calendar may hold and answer *)

\* wall-clock slots of the remote calendars: 10:00, 10:30 and 11:15 on
\* day 3, 13:00 on day 4
SlotPool == {3 * MinutesPerDay + 600, 3 * MinutesPerDay + 630,
             3 * MinutesPerDay + 675, 4 * MinutesPerDay + 780}

RemoteResponses == DistinctSeqsUpTo(SlotPool, MaxRespSlots)

\* the response body: date key -> the slots filed under it, in order
groupByDate(slots) ==
    [d \in {SlotDateKey(slots[i]) : i \in DOMAIN slots} |->
        SelectSeq(slots, LAMBDA s : SlotDateKey(s) = d)]

\* the request is made at 08:00 on day 3 of the calendar's wall clock
EnvChoices ==
    {[now |-> 3 * MinutesPerDay + 480, calOff |-> 0, srvOff |-> 0],
     [now |-> 3 * MinutesPerDay + 1080, calOff |-> 0 - 600, srvOff |-> 0]}

Row(offers, duration, buffer) ==
    [is_active |-> TRUE, offers |-> offers,
     slot_duration |-> duration, slot_buffer |-> buffer]

\* directory contents: one calendar per service; both calendars for both
\* services; only s1 synced, s2 on the default calendar; s2 nowhere
DbChoices ==
    {[cals |-> [c \in Calendars |->
                   IF c = "calA" THEN Row({"s1"}, 60, 15) ELSE Row({"s2"}, 60, 15)],
      dflt |-> <<>>],
     [cals |-> [c \in Calendars |->
                   IF c = "calA" THEN Row({"s1", "s2"}, 30, 30)
                   ELSE Row({"s1", "s2"}, 0, 0)],
      dflt |-> <<"calA">>],
     [cals |-> [c \in {"calA"} |-> Row({"s1"}, 60, 0)],
      dflt |-> <<"calB">>],
     [cals |-> [c \in {"calA"} |-> Row({"s1"}, 30, 15)],
      dflt |-> <<>>]}

EnvInit ==
    \E e \in EnvChoices :
        /\ realNow = e.now
        /\ calOff = e.calOff
        /\ srvOff = e.srvOff

DbInit ==
    \E db \in DbChoices :
        /\ syncedCalendars = db.cals
        /\ defaultCalendar = db.dflt

BookIdle ==
    /\ bkPc = "idle"
    /\ bkServices = <<>>
    /\ bkPlan = <<>>
    /\ bkI = 1
    /\ bkRetry = FALSE
    /\ bkAppointments = <<>>
    /\ bkAllSuccessful = TRUE
    /\ bkResponse = <<>>
    /\ bkCalls = <<>>
    /\ rmtInFlight = 0
    /\ rmtAppointments = {}

AvailIdle ==
    /\ avPc = "idle"
    /\ avPref = <<>>
    /\ avTargetMins = <<>>
    /\ avDateFilter = <<>>
    /\ avStartAfter = <<>>
    /\ avCalendars = <<>>
    /\ avDaysAhead = 0
    /\ avAvailability = <<>>
    /\ avResponse = <<>>
    /\ avFetched = <<>>
    /\ avFailed = {}
    /\ rmtHeld = <<>>

FetchIdle ==
    /\ ftPc = [c \in Calendars |-> "idle"]
    /\ ftLog = [c \in Calendars |-> <<>>]
    /\ tokenExpired = FALSE
    /\ refreshInFlight = FALSE

Callers == {"r1", "r2"}

CallIdle ==
    [pc |-> "idle", route |-> "", calendar |-> "", fresh |-> FALSE,
     hit |-> FALSE, fetches |-> 0, threw |-> FALSE, openDays |-> <<>>,
     http |-> 0]

CacheIdle ==
    /\ scNow = 0
    /\ scheduleCache = [c \in Calendars |-> <<>>]
    /\ scCall = [k \in Callers |-> CallIdle]
    /\ scLast = [c \in Calendars |-> <<>>]

\* no team member synced and no manual mapping configured
DirIdle ==
    /\ teamMembers = <<>>
    /\ serviceMappings = <<>>

DateIdle == dtCall = <<>>

StaffIdle ==
    /\ stPc = "idle"
    /\ stRequest = <<>>
    /\ stResolved = <<>>
    /\ stEntries = <<>>
    /\ stDaysAhead = 0
    /\ stResponse = <<>>
    /\ stSent = <<>>
    /\ stHeld = <<>>

SvcIdle ==
    /\ svPc = "idle"
    /\ svRequest = <<>>
    /\ svResolved = <<>>
    /\ svNotes = <<>>
    /\ svRetry = FALSE
    /\ svContactId = <<>>
    /\ svAppointmentId = <<>>
    /\ svCreated = FALSE
    /\ svNoted = <<>>
    /\ svResponse = <<>>
    /\ svCalls = <<>>

TimeIdle == tmCall = <<>>

RefIdle ==
    /\ rwCall = <<>>
    /\ rwSource = [c \in Calendars |-> <<>>]

RefreshIdle ==
    /\ rfCaller = [k \in {"k1", "k2", "k3"} |->
                      [pc |-> "idle", resource |-> "", awaits |-> <<>>,
                       outcome |-> "none"]]
    /\ refreshPromises = [r \in {"locA", "locB"} |-> <<>>]
    /\ rfPromise = [k \in {"k1", "k2", "k3"} |-> "none"]
    /\ tokenCalls = [r \in {"locA", "locB"} |-> 0]
    /\ tokenCallsMade = [r \in {"locA", "locB"} |-> 0]

SyncIdle ==
    /\ syCaller = [p \in {"poller", "manual", "install"} |->
                      [pc |-> "idle", location |-> "", error |-> "",
                       marked |-> FALSE, reset |-> FALSE]]
    /\ syncInProgress = [l \in {"locA", "locB"} |-> FALSE]
    /\ syncedBy = [l \in {"locA", "locB"} |-> <<>>]
    /\ syLog = [l \in {"locA", "locB"} |-> <<>>]

ResyncIdle ==
    /\ rsPc = "idle"
    /\ rsRemote = <<>>
    /\ rsGenders = <<>>
    /\ rsWrites = <<>>
    /\ rsBefore = <<>>
    /\ rdSeen = <<>>

RestIdle == ResyncIdle /\ bkSelected = <<>>

MoreIdle == SvcIdle /\ TimeIdle /\ RefIdle /\ RefreshIdle /\ SyncIdle /\ RestIdle

----------------------------------------------------------------------------
(* findPackageDayAvailability as a process *)

PlanIdle ==
    /\ plPc = "idle"
    /\ plServices = <<>>
    /\ plPref = "any"
    /\ plReqDate = <<>>
    /\ plMaxResults = 1
    /\ plServiceCalendars = <<>>
    /\ plToFetch = <<>>
    /\ plCalendarSlots = <<>>
    /\ plExamined = <<>>
    /\ plResults = <<>>

PlanRequests ==
    [services : SeqsUpTo(Services, MaxPkgLen),
     timePreference : TimePreferences,
     shape : {[requestedDate |-> <<>>, maxResults |-> 1],
              [requestedDate |-> <<3>>, maxResults |-> 3]}]

\* the test on cals.length with no service ever found without calendar
noCalendarFound_Never(services, serviceCalendars) == FALSE

\* some service of the package has no calendar: cals.length === 0
noCalendarFound(services, serviceCalendars) ==
    \E s \in Range(services) : Len(serviceCalendars[s]) = 0

\* entry, datesToCheck and the calendars of each service; a service without
\* a calendar ends the call with no plan
PlanStart ==
    /\ plPc = "idle"
    /\ \E r \in PlanRequests :
        LET sc == [s \in Range(r.services) |-> resolveServiceCalendars(s)]
            missing == noCalendarFound(r.services, sc)
        IN /\ plServices' = r.services
           /\ plPref' = r.timePreference
           /\ plReqDate' = r.shape.requestedDate
           /\ plMaxResults' = r.shape.maxResults
           /\ plServiceCalendars' = sc
           /\ plToFetch' = IF missing THEN <<>>
                           ELSE allCalendarIds(r.services, 1, sc)
           /\ plPc' = IF missing THEN "done" ELSE "fetch"
    /\ UNCHANGED <<plCalendarSlots, plExamined, plResults>>
    /\ UNCHANGED <<envVars, dbVars, bookVars, availVars, fetchVars, cacheVars, dirVars, staffVars, dateVars, moreVars>>

\* one turn of the slot pre-fetch: the remote answers with slots
PlanFetchOk ==
    /\ plPc = "fetch"
    /\ plToFetch # <<>>
    /\ \E resp \in RemoteResponses :
        plCalendarSlots' =
            [c \in DOMAIN plCalendarSlots \cup {Head(plToFetch)} |->
                IF c = Head(plToFetch) THEN groupByDate(resp)
                ELSE plCalendarSlots[c]]
    /\ plToFetch' = Tail(plToFetch)
    /\ UNCHANGED <<plPc, plServices, plPref, plReqDate, plMaxResults,
                   plServiceCalendars, plExamined, plResults>>
    /\ UNCHANGED <<envVars, dbVars, bookVars, availVars, fetchVars, cacheVars, dirVars, staffVars, dateVars, moreVars>>

\* one turn of the slot pre-fetch: the request throws, the catch stores an
\* empty map
PlanFetchError ==
    /\ plPc = "fetch"
    /\ plToFetch # <<>>
    /\ plCalendarSlots' =
            [c \in DOMAIN plCalendarSlots \cup {Head(plToFetch)} |->
                IF c = Head(plToFetch) THEN <<>> ELSE plCalendarSlots[c]]
    /\ plToFetch' = Tail(plToFetch)
    /\ UNCHANGED <<plPc, plServices, plPref, plReqDate, plMaxResults,
                   plServiceCalendars, plExamined, plResults>>
    /\ UNCHANGED <<envVars, dbVars, bookVars, availVars, fetchVars, cacheVars, dirVars, staffVars, dateVars, moreVars>>

\* the loop over datesToCheck and the return
PlanScan ==
    /\ plPc = "fetch"
    /\ plToFetch = <<>>
    /\ LET out == scanDates(plReqDate, plServices, plServiceCalendars,
                            plCalendarSlots, plPref, plMaxResults)
       IN /\ plResults' = out.results
          /\ plExamined' = out.examined
    /\ plPc' = "done"
    /\ UNCHANGED <<plServices, plPref, plReqDate, plMaxResults,
                   plServiceCalendars, plToFetch, plCalendarSlots>>
    /\ UNCHANGED <<envVars, dbVars, bookVars, availVars, fetchVars, cacheVars, dirVars, staffVars, dateVars, moreVars>>

PlanNext == PlanStart \/ PlanFetchOk \/ PlanFetchError \/ PlanScan

PlanInit == EnvInit /\ DbInit /\ PlanIdle /\ BookIdle /\ AvailIdle /\ FetchIdle /\ CacheIdle /\ DirIdle /\ StaffIdle /\ DateIdle /\ MoreIdle

SpecPlan == PlanInit /\ [][PlanNext]_vars

----------------------------------------------------------------------------
(* Package booking: POST /book-package, POST /book in package mode, and    *)
(* bookServiceAppointment behind the client of GHL.requests               *)

\* findPackageDayAvailability as one call: remote[c] is the answer of the
\* remote calendar for calendar c, a fetch that throws leaves an empty map
findPackageDayAvailability(services, timePreference, requestedDate, maxResults, remote) ==
    LET sc == [s \in Range(services) |-> resolveServiceCalendars(s)]
    IN IF \E s \in Range(services) : Len(sc[s]) = 0 THEN <<>>
       ELSE scanDates(requestedDate, services, sc,
                [c \in Range(allCalendarIds(services, 1, sc)) |->
                    IF remote[c].ok THEN groupByDate(remote[c].slots)
                    ELSE <<>>],
                timePreference, maxResults).results

\* packagePlans[0] || null, dropped when a selected date is not the plan's
choosePackagePlan(packagePlans, specificDate) ==
    IF Len(packagePlans) = 0 THEN <<>>
    ELSE IF specificDate # <<>> /\ packagePlans[1].date # specificDate[1]
         THEN <<>>
         ELSE <<packagePlans[1]>>

confirmedAppointments(appointments) ==
    SelectSeq(appointments, LAMBDA a : a.status = "confirmed")

\* a message is the sequence of its parts, the service names among them

\* `I was able to book ${bookedServices}, but ${failedService} failed to
\* book. ...`: the confirmed services, then the first failed one
partialMessage(appointments) ==
    LET confirmed == confirmedAppointments(appointments)
        failed == SelectSeq(appointments, LAMBDA a : a.status = "failed")
    IN <<"I was able to book">>
           \o [k \in DOMAIN confirmed |-> confirmed[k].service]
           \o <<", but">>
           \o (IF Len(failed) > 0 THEN <<failed[1].service>>
               ELSE <<"undefined">>)
           \o <<"failed to book. Would you like me to try again?">>

\* buildPackageConfirmation: each confirmed service with its time
buildPackageConfirmation(confirmed) ==
    <<"is confirmed">> \o [k \in DOMAIN confirmed |-> confirmed[k].service]

\* Step 5 with the partial branch tested first
buildResponse_PartialFirst(appointments, allSuccessful) ==
    IF ~allSuccessful
    THEN [http |-> 200, success |-> FALSE, partial |-> TRUE,
          appointments |-> appointments,
          message |-> partialMessage(appointments)]
    ELSE IF Len(confirmedAppointments(appointments)) = 0
    THEN [http |-> 200, success |-> FALSE, partial |-> FALSE,
          appointments |-> appointments,
          message |-> <<"I found availability but the bookings failed.">>]
    ELSE [http |-> 200, success |-> TRUE, partial |-> FALSE,
          appointments |-> confirmedAppointments(appointments),
          message |-> buildPackageConfirmation(
                          confirmedAppointments(appointments))]

\* Step 5: the response built from appointments and allSuccessful
buildResponse(appointments, allSuccessful) ==
    IF Len(confirmedAppointments(appointments)) = 0
    THEN [http |-> 200, success |-> FALSE, partial |-> FALSE,
          appointments |-> appointments,
          message |-> <<"I found availability but the bookings failed.">>]
    ELSE IF ~allSuccessful
    THEN [http |-> 200, success |-> FALSE, partial |-> TRUE,
          appointments |-> appointments,
          message |-> partialMessage(appointments)]
    ELSE [http |-> 200, success |-> TRUE, partial |-> FALSE,
          appointments |-> confirmedAppointments(appointments),
          message |-> buildPackageConfirmation(
                          confirmedAppointments(appointments))]

\* the loop index after a failed step, the loop given up
indexAfterFailure_Abort(i, n) == n + 1

\* the loop index after a failed step: continue
indexAfterFailure(i, n) == i + 1

\* a failed step that leaves no entry behind
pushFailed_Dropped(appointments, service, error) == appointments

\* appointments.push({ service, status: "failed", error })
pushFailed(appointments, service, error) ==
    Append(appointments, [service |-> service, status |-> "failed",
                          error |-> error, appointment_id |-> <<>>])

\* appointments.push({ service, ..., appointment_id, status: "confirmed" })
pushConfirmed(appointments, service, appointmentId) ==
    Append(appointments, [service |-> service, status |-> "confirmed",
                          error |-> "", appointment_id |-> appointmentId])

\* selected_date or requested_date of the request as parseRequestedDate
\* returns it; a selected_date with no date is one it returns null for
BookDates == {[kind |-> "none", date |-> <<>>],
              [kind |-> "selected", date |-> <<3>>],
              [kind |-> "selected", date |-> <<4>>],
              [kind |-> "selected", date |-> <<>>],
              [kind |-> "requested", date |-> <<3>>]}

RemoteAnswers ==
    [ok : {TRUE}, slots : RemoteResponses] \cup {[ok |-> FALSE, slots |-> <<>>]}

\* the handler up to the booking loop: the plan is found, or the request
\* ends with no availability
BookStart ==
    /\ bkPc = "idle"
    /\ \E services \in SeqsUpTo(Services, MaxPkgLen), pref \in TimePreferences, d \in BookDates, answer \in RemoteAnswers :
        LET specificDate == IF d.kind = "selected" THEN d.date ELSE <<>>
            startDateFilter == d.date
            packagePlans == findPackageDayAvailability(services, pref,
                                startDateFilter, 1,
                                [c \in Calendars |-> answer])
            packagePlan == choosePackagePlan(packagePlans, specificDate)
        IN /\ bkServices' = services
           /\ bkSelected' = <<d>>
           /\ bkPlan' = packagePlan
           /\ IF packagePlan = <<>>
              THEN /\ bkPc' = "done"
                   /\ bkResponse' = <<[http |-> 200, success |-> FALSE,
                                       partial |-> FALSE,
                                       appointments |-> <<>>]>>
              ELSE /\ bkPc' = "loop"
                   /\ bkResponse' = <<>>
    /\ UNCHANGED <<bkI, bkRetry, bkAppointments, bkAllSuccessful, bkCalls,
                   rmtInFlight, rmtAppointments>>
    /\ UNCHANGED <<envVars, dbVars, planVars, availVars, fetchVars, cacheVars, dirVars, staffVars, dateVars>>
    /\ UNCHANGED <<svVars, timeVars, refVars, rfVars, syncVars, rsVars>>

\* GHL.requests throws (no installation, or the proactive refresh fails):
\* the handler's catch answers 500
BookClientError ==
    /\ bkPc = "idle"
    /\ bkPc' = "done"
    /\ bkResponse' = <<[http |-> 500, success |-> FALSE, partial |-> FALSE,
                        appointments |-> <<>>]>>
    /\ UNCHANGED <<bkServices, bkPlan, bkI, bkRetry, bkAppointments,
                   bkAllSuccessful, bkCalls, rmtInFlight, rmtAppointments>>
    /\ UNCHANGED <<envVars, dbVars, planVars, availVars, fetchVars, cacheVars, dirVars, staffVars, dateVars, moreVars>>

\* loop head: bookServiceAppointment is called for step i and posts the
\* contact upsert
BookStep ==
    /\ bkPc = "loop"
    /\ bkI <= Len(bkPlan[1].slots)
    /\ bkPc' = "upsert"
    /\ bkRetry' = FALSE
    /\ bkCalls' = Append(bkCalls, [call |-> "upsert", step |-> bkI,
                                   resend |-> FALSE])
    /\ UNCHANGED <<bkServices, bkPlan, bkI, bkAppointments, bkAllSuccessful,
                   bkResponse, rmtInFlight, rmtAppointments>>
    /\ UNCHANGED <<envVars, dbVars, planVars, availVars, fetchVars, cacheVars, dirVars, staffVars, dateVars, moreVars>>

\* the step returned { success: false, error }: the route records it
StepFailed(error) ==
    /\ bkAppointments' = pushFailed(bkAppointments,
                                    bkPlan[1].slots[bkI].service, error)
    /\ bkAllSuccessful' = FALSE
    /\ bkI' = indexAfterFailure(bkI, Len(bkPlan[1].slots))
    /\ bkPc' = "loop"
    /\ bkRetry' = FALSE

UpstreamErrors == {"Request failed with status code 500", "Network Error"}

\* the upsert answers with a contact id: the create-appointment is posted
BookUpsertOk ==
    /\ bkPc = "upsert"
    /\ bkPc' = "create"
    /\ bkRetry' = FALSE
    /\ rmtInFlight' = rmtInFlight + 1
    /\ bkCalls' = Append(bkCalls, [call |-> "create", step |-> bkI,
                                   resend |-> FALSE])
    /\ UNCHANGED <<bkServices, bkPlan, bkI, bkAppointments, bkAllSuccessful,
                   bkResponse, rmtAppointments>>
    /\ UNCHANGED <<envVars, dbVars, planVars, availVars, fetchVars, cacheVars, dirVars, staffVars, dateVars, moreVars>>

\* the upsert answers without a contact id
BookUpsertNoId ==
    /\ bkPc = "upsert"
    /\ StepFailed("Failed to create contact")
    /\ UNCHANGED <<bkServices, bkPlan, bkResponse, bkCalls, rmtInFlight,
                   rmtAppointments>>
    /\ UNCHANGED <<envVars, dbVars, planVars, availVars, fetchVars, cacheVars, dirVars, staffVars, dateVars, moreVars>>

\* the call in flight is rejected with an error other than 401
BookCallError ==
    /\ bkPc \in {"upsert", "create"}
    /\ \E err \in UpstreamErrors : StepFailed(err)
    /\ rmtInFlight' = IF bkPc = "create" THEN rmtInFlight - 1 ELSE rmtInFlight
    /\ UNCHANGED <<bkServices, bkPlan, bkResponse, bkCalls, rmtAppointments>>
    /\ UNCHANGED <<envVars, dbVars, planVars, availVars, fetchVars, cacheVars, dirVars, staffVars, dateVars, moreVars>>

\* the call in flight is rejected with 401 and was not resent yet: the
\* response interceptor refreshes the token and sends the request again
BookCallUnauthorizedResend ==
    /\ bkPc \in {"upsert", "create"}
    /\ ~bkRetry
    /\ bkRetry' = TRUE
    /\ bkCalls' = Append(bkCalls, [call |-> bkPc, step |-> bkI,
                                   resend |-> TRUE])
    /\ UNCHANGED <<bkPc, bkServices, bkPlan, bkI, bkAppointments,
                   bkAllSuccessful, bkResponse, rmtInFlight, rmtAppointments>>
    /\ UNCHANGED <<envVars, dbVars, planVars, availVars, fetchVars, cacheVars, dirVars, staffVars, dateVars, moreVars>>

\* the call in flight is rejected with 401 and the interceptor's refresh
\* throws
BookCallRefreshFails ==
    /\ bkPc \in {"upsert", "create"}
    /\ ~bkRetry
    /\ StepFailed("Request failed with status code 400")
    /\ rmtInFlight' = IF bkPc = "create" THEN rmtInFlight - 1 ELSE rmtInFlight
    /\ UNCHANGED <<bkServices, bkPlan, bkResponse, bkCalls, rmtAppointments>>
    /\ UNCHANGED <<envVars, dbVars, planVars, availVars, fetchVars, cacheVars, dirVars, staffVars, dateVars, moreVars>>

\* the resent call is rejected with 401 again
BookCallUnauthorizedAgain ==
    /\ bkPc \in {"upsert", "create"}
    /\ bkRetry
    /\ StepFailed("Request failed with status code 401")
    /\ rmtInFlight' = IF bkPc = "create" THEN rmtInFlight - 1 ELSE rmtInFlight
    /\ UNCHANGED <<bkServices, bkPlan, bkResponse, bkCalls, rmtAppointments>>
    /\ UNCHANGED <<envVars, dbVars, planVars, availVars, fetchVars, cacheVars, dirVars, staffVars, dateVars, moreVars>>

\* the remote calendar creates the appointment and answers, with or
\* without an id in the body
BookCreateOk ==
    /\ bkPc = "create"
    /\ \E appointmentId \in {<<>>, <<bkI>>} :
        bkAppointments' = pushConfirmed(bkAppointments,
                              bkPlan[1].slots[bkI].service, appointmentId)
    /\ rmtAppointments' = rmtAppointments \cup {bkI}
    /\ rmtInFlight' = rmtInFlight - 1
    /\ bkI' = bkI + 1
    /\ bkPc' = "loop"
    /\ bkRetry' = FALSE
    /\ UNCHANGED <<bkServices, bkPlan, bkAllSuccessful, bkResponse, bkCalls>>
    /\ UNCHANGED <<envVars, dbVars, planVars, availVars, fetchVars, cacheVars, dirVars, staffVars, dateVars, moreVars>>

\* the loop is over: Step 5
BookRespond ==
    /\ bkPc = "loop"
    /\ bkI > Len(bkPlan[1].slots)
    /\ bkResponse' = <<buildResponse(bkAppointments, bkAllSuccessful)>>
    /\ bkPc' = "done"
    /\ UNCHANGED <<bkServices, bkPlan, bkI, bkRetry, bkAppointments,
                   bkAllSuccessful, bkCalls, rmtInFlight, rmtAppointments>>
    /\ UNCHANGED <<envVars, dbVars, planVars, availVars, fetchVars, cacheVars, dirVars, staffVars, dateVars, moreVars>>

BookNext ==
    \/ BookStart
    \/ BookClientError
    \/ BookStep
    \/ BookUpsertOk
    \/ BookUpsertNoId
    \/ BookCallError
    \/ BookCallUnauthorizedResend
    \/ BookCallRefreshFails
    \/ BookCallUnauthorizedAgain
    \/ BookCreateOk
    \/ BookRespond

BookInit == EnvInit /\ DbInit /\ PlanIdle /\ BookIdle /\ AvailIdle /\ FetchIdle /\ CacheIdle /\ DirIdle /\ StaffIdle /\ DateIdle /\ MoreIdle

SpecBook == BookInit /\ [][BookNext]_vars

----------------------------------------------------------------------------
(* Claims about package booking *)

BookedPlan == bkPlan[1].slots

BookAnswered == bkPc = "done" /\ bkPlan # <<>>

\* the calls of kind call sent for step i, first sends only
FirstSends(call, i) ==
    {k \in DOMAIN bkCalls : bkCalls[k] = [call |-> call, step |-> i,
                                          resend |-> FALSE]}

\* C2 as stated: once the booking of a plan is answered, all steps
\* succeeded means full success with one appointment per service, some but
\* not all means partial, none means failed and not partial, and the
\* confirmed entries are as many as the creates that returned success.
C2_AsStated ==
    BookAnswered =>
        LET r == bkResponse[1]
            n == Len(BookedPlan)
            ok == Cardinality(rmtAppointments)
        IN /\ ok = n => r.success /\ Len(r.appointments) = Len(bkServices)
           /\ (0 < ok /\ ok < n) => ~r.success /\ r.partial
           /\ ok = 0 => ~r.success /\ ~r.partial
           /\ Len(confirmedAppointments(r.appointments)) = ok

\* C2: once the booking of a plan is answered, a plan of at least one step
\* whose steps all succeeded is reported as full success with one
\* appointment per service of the package; some but not all succeeded is
\* reported as partial; none succeeded, the plan of no steps included, is
\* reported as failed and not partial; the confirmed entries are exactly
\* the steps whose create-appointment call returned success.
C2_OutcomeClassification ==
    BookAnswered =>
        LET r == bkResponse[1]
            n == Len(BookedPlan)
            ok == Cardinality(rmtAppointments)
        IN /\ (n >= 1 /\ ok = n) =>
                r.success /\ ~r.partial /\ Len(r.appointments) = Len(bkServices)
           /\ (0 < ok /\ ok < n) => ~r.success /\ r.partial
           /\ ok = 0 => ~r.success /\ ~r.partial
           /\ Len(confirmedAppointments(r.appointments)) = ok
           /\ \A i \in 1..n :
                  i \in rmtAppointments <=>
                      bkAppointments[i].status = "confirmed"

\* a two-step plan answered as partial: the first step failed, the create
\* of the second returned success
C2_Witness ==
    /\ BookAnswered
    /\ Len(BookedPlan) = 2
    /\ rmtAppointments = {2}
    /\ bkResponse[1].partial
    /\ ~bkResponse[1].success

\* C3: the calls of the booking loop are sent in package order, step i
\* booking service i of the package; every step the loop has passed, and
\* every planned step once the request is answered, had its contact upsert
\* sent exactly once and its create-appointment sent at most once, whatever
\* happened to the steps before it; at most one create-appointment call is
\* in flight; and an appointment the remote calendar has confirmed is never
\* taken back, nor its entry.
C3_SequentialNoRollback ==
    /\ [](bkPlan # <<>> =>
            /\ rmtInFlight <= 1
            /\ \A i \in 1..Len(BookedPlan) :
                   BookedPlan[i].service = bkServices[i]
            /\ \A j, k \in DOMAIN bkCalls :
                   j < k => bkCalls[j].step <= bkCalls[k].step
            /\ \A k \in DOMAIN bkCalls : bkCalls[k].step <= bkI
            /\ \A i \in 1..Len(BookedPlan) :
                   (i < bkI \/ bkPc = "done") =>
                       /\ Cardinality(FirstSends("upsert", i)) = 1
                       /\ Cardinality(FirstSends("create", i)) <= 1
                       /\ i \in rmtAppointments =>
                              bkAppointments[i].status = "confirmed")
    /\ [][/\ rmtAppointments \subseteq rmtAppointments'
          /\ Len(bkAppointments) <= Len(bkAppointments')
          /\ \A i \in DOMAIN bkAppointments :
                 bkAppointments'[i] = bkAppointments[i]]_vars

\* a two-step plan answered after the first step failed and the second was
\* still attempted and confirmed
C3_Witness ==
    /\ BookAnswered
    /\ Len(BookedPlan) = 2
    /\ bkAppointments[1].status = "failed"
    /\ FirstSends("create", 1) = {}
    /\ FirstSends("upsert", 2) # {}
    /\ 2 \in rmtAppointments

\* C4: once the booking of a plan is answered, the answer is not an error
\* response, its appointments hold one entry per planned step in plan
\* order, and every step whose upsert or create failed is a failed entry
\* carrying an error string; before that, a failure ends no request.
C4_StepFailuresCaptured ==
    /\ bkPlan # <<>> /\ bkPc # "done" => bkResponse = <<>>
    /\ BookAnswered =>
        LET r == bkResponse[1]
        IN /\ r.http = 200
           /\ Len(r.appointments) = Len(BookedPlan)
           /\ \A i \in 1..Len(BookedPlan) :
                  /\ r.appointments[i].service = BookedPlan[i].service
                  /\ i \notin rmtAppointments =>
                         /\ r.appointments[i].status = "failed"
                         /\ r.appointments[i].error # ""

\* a two-step plan answered with the first step failed for want of a
\* contact id and the second for an upstream error of the create call
C4_Witness ==
    /\ BookAnswered
    /\ Len(BookedPlan) = 2
    /\ bkResponse[1].appointments[1].error = "Failed to create contact"
    /\ bkResponse[1].appointments[2].error \in UpstreamErrors
    /\ FirstSends("create", 2) # {}

----------------------------------------------------------------------------
(* Claims about the package day-fit planner *)

PlanSteps == {<<r, i>> \in (1..DAYS_TO_SEARCH) \X (1..(MaxPkgLen + 1)) :
                 r <= Len(plResults) /\ i <= Len(plResults[r].slots)}

\* C1: in every plan the planner returns, every step after the first starts
\* no earlier than the end of the step before it plus the buffer of that
\* step's calendar, the end being the start plus that calendar's slot
\* duration.
C1_StepsRespectBuffer ==
    \A p \in PlanSteps :
        LET slots == plResults[p[1]].slots
            i == p[2]
        IN i > 1 =>
            LET prev == slots[i - 1]
                timing == getCalendarTiming(prev.calendar_id)
            IN /\ prev.endTime = SlotEpoch(prev.startTime) + timing.duration
               /\ SlotEpoch(slots[i].startTime) >= prev.endTime + timing.buffer

\* a returned plan of two steps on two calendars whose second step starts
\* exactly at the first step's end plus buffer, an earlier slot of the
\* second calendar having been passed over
C1_Witness ==
    /\ plPc = "done"
    /\ \E r \in 1..Len(plResults) :
        LET slots == plResults[r].slots
        IN /\ Len(slots) = 2
           /\ slots[1].calendar_id # slots[2].calendar_id
           /\ SlotEpoch(slots[2].startTime) =
                  slots[1].endTime + getCalendarTiming(slots[1].calendar_id).buffer
           /\ \E k \in 1..Len(plCalendarSlots[slots[2].calendar_id][plResults[r].date]) :
                  plCalendarSlots[slots[2].calendar_id][plResults[r].date][k]
                      < slots[2].startTime

----------------------------------------------------------------------------
(* Availability search: POST /check-availability in service mode *)

isSlotMorning(slot) == SlotHour(slot) < 12

\* isSlotAfternoon with the afternoon starting at noon
isSlotAfternoon_FromNoon(slot) == SlotHour(slot) >= 12

isSlotAfternoon(slot) ==
    SlotHour(slot) > 12 \/ (SlotHour(slot) = 12 /\ SlotMinute(slot) >= 15)

getSlotMinutes(slot) == SlotHour(slot) * 60 + SlotMinute(slot)

\* timeFilterFn: none without time_preference, isSlotMorning for morning,
\* isSlotAfternoon for every other value
timeFilterFn(pref, slot) ==
    IF pref = <<>> THEN TRUE
    ELSE IF pref[1] = "morning" THEN isSlotMorning(slot)
    ELSE isSlotAfternoon(slot)

\* maxSlots with the two limits exchanged
maxSlots_Exchanged(targetMins) ==
    IF targetMins # <<>> THEN MaxSlotsDefault ELSE MaxSlotsWithTime

maxSlots(targetMins) ==
    IF targetMins # <<>> THEN MaxSlotsWithTime ELSE MaxSlotsDefault

\* the window after daysAhead, the middle one left out
nextWindow_Skip(daysAhead) == LastWindow

\* the window the auto-extension fetches after daysAhead
nextWindow(daysAhead) ==
    IF daysAhead = FirstWindow THEN SecondWindow ELSE LastWindow

\* calendarsToCheck for a service: its synced calendars, else the default
\* calendar of the installation, else none (the request ends with 400)
calendarsToCheck(service) ==
    LET syncedCals == getSyncedCalendarsForService(service)
    IN IF Len(syncedCals) > 0 THEN syncedCals ELSE defaultCalendar

nowPlusBuffer == LocalNowMs + BUFFER_MS

\* nowPlusBuffer, raised to start_after when it is given and
\* new Date(start_after).getTime() is not NaN
minSlotTimeMs ==
    IF avStartAfter # <<>> /\ avStartAfter[1].valid
    THEN Max2(nowPlusBuffer, SlotEpoch(avStartAfter[1].at))
    ELSE nowPlusBuffer

\* new Date(todayStr) is midnight UTC of the date localNow spells in UTC
startMs == Max2(ToISODate(LocalNowMs) * MinutesPerDay, minSlotTimeMs)

endMs(daysAhead) == LocalNowMs + daysAhead * MinutesPerDay

\* the answer of the remote calendar: the free slots it holds from the day
\* of startDate in the calendar's timezone up to endDate, in time order
remoteFreeSlots(held, daysAhead) ==
    Ascending({slot \in held :
        /\ SlotDateKey(slot) >= (startMs + calOff) \div MinutesPerDay
        /\ SlotEpoch(slot) <= endMs(daysAhead)})

\* fetchSlotsForCalendar: the slots of the answer not before minSlotTimeMs,
\* each with its calendar
fetchSlotsForCalendar(calendarId, daysAhead, held) ==
    LET answer == remoteFreeSlots(held[calendarId], daysAhead)
        futureSlots == SelectSeq(answer, LAMBDA slot :
                           SlotEpoch(slot) >= minSlotTimeMs)
    IN [k \in 1..Len(futureSlots) |->
           [slot |-> futureSlots[k], calendar_id |-> calendarId]]

\* fetchAllCalendarsForDays when no fetch throws: merged by date key, each
\* day sorted by slot
fetchAllCalendarsForDays(calendars, daysAhead, held) ==
    LET all == Concat([k \in 1..Len(calendars) |->
                   fetchSlotsForCalendar(calendars[k], daysAhead, held)], 1)
    IN [dateKey \in {SlotDateKey(all[i].slot) : i \in DOMAIN all} |->
           LET onDay == SelectSeq(all, LAMBDA e : SlotDateKey(e.slot) = dateKey)
           IN StableSort(onDay, [i \in DOMAIN onDay |-> onDay[i].slot])]

resultSlot(dateKey, slotInfo) ==
    [date |-> dateKey, startTime |-> slotInfo.slot,
     calendar_id |-> slotInfo.calendar_id]

filteredDates(availability, dateFilter) ==
    Ascending({dateKey \in DOMAIN availability :
                   dateFilter = <<>> \/ dateKey = dateFilter[1]})

\* collectSlots with the first slot of each day taken whether or not a
\* time was requested
collectSlots_OnePerDay(availability, dateFilter, pref, targetMins) ==
    LET dates == filteredDates(availability, dateFilter)
        kept == [k \in 1..Len(dates) |->
                    SelectSeq(availability[dates[k]],
                              LAMBDA e : timeFilterFn(pref, e.slot))]
        pick[k \in Nat, daysFound \in Nat] ==
            IF k > Len(dates) \/ daysFound >= maxSlots(targetMins) THEN <<>>
            ELSE IF Len(kept[k]) = 0 THEN pick[k + 1, daysFound]
            ELSE <<resultSlot(dates[k], kept[k][1])>>
                     \o pick[k + 1, daysFound + 1]
    IN pick[1, 0]

\* collectSlots: with a target time, every slot passing the filters, sorted
\* by distance to it and cut to maxSlots; else the first slot of each day
collectSlots(availability, dateFilter, pref, targetMins) ==
    LET dates == filteredDates(availability, dateFilter)
        kept == [k \in 1..Len(dates) |->
                    SelectSeq(availability[dates[k]],
                              LAMBDA e : timeFilterFn(pref, e.slot))]
        pick[k \in Nat, daysFound \in Nat] ==
            IF k > Len(dates) \/ daysFound >= maxSlots(targetMins) THEN <<>>
            ELSE IF Len(kept[k]) = 0 THEN pick[k + 1, daysFound]
            ELSE <<resultSlot(dates[k], kept[k][1])>>
                     \o pick[k + 1, daysFound + 1]
    IN IF targetMins # <<>>
       THEN LET allSlots == Concat(kept, 1)
                diff == [i \in DOMAIN allSlots |->
                            Abs(getSlotMinutes(allSlots[i].slot) - targetMins[1])]
                top == Take(StableSort(allSlots, diff), maxSlots(targetMins))
            IN [i \in DOMAIN top |->
                   resultSlot(SlotDateKey(top[i].slot), top[i])]
       ELSE pick[1, 0]

SlotAt(day, hour, minute) == day * MinutesPerDay + hour * 60 + minute

\* what one remote calendar may hold: nothing; today 08:05, 11:45, 12:00;
\* today 12:10, 12:15, 13:00; one slot on each of the next four days; one
\* slot ten days ahead; one slot twenty days ahead; today 14:00 and
\* tomorrow 09:00 and 10:30
HeldChoices ==
    {{},
     {SlotAt(3, 8, 5), SlotAt(3, 11, 45), SlotAt(3, 12, 0)},
     {SlotAt(3, 12, 10), SlotAt(3, 12, 15), SlotAt(3, 13, 0)},
     {SlotAt(4, 9, 0), SlotAt(5, 9, 0), SlotAt(6, 9, 0), SlotAt(7, 10, 0)},
     {SlotAt(13, 9, 0)},
     {SlotAt(23, 14, 0)},
     {SlotAt(3, 14, 0), SlotAt(4, 9, 0), SlotAt(4, 10, 30)}}

\* start_after as sent: a timestamp in the calendar's timezone (07:00 or
\* 12:12 of day 3) or a text that is no date
StartAfters ==
    {<<[valid |-> FALSE, at |-> 0]>>,
     <<[valid |-> TRUE, at |-> SlotAt(3, 7, 0)]>>,
     <<[valid |-> TRUE, at |-> SlotAt(3, 12, 12)]>>}

AvailRequests ==
    [service : Services,
     time_preference : {<<>>} \cup {<<p>> : p \in TimePreferences},
     targetMins : {<<>>, <<12 * 60>>},
     requested_date : {<<>>, <<13>>},
     start_after : {<<>>}]
    \cup
    [service : Services,
     time_preference : {<<>>} \cup {<<p>> : p \in TimePreferences},
     targetMins : {<<>>},
     requested_date : {<<>>},
     start_after : StartAfters]

\* the handler up to the first fetch: the calendars to search
AvailStart ==
    /\ avPc = "idle"
    /\ \E r \in AvailRequests, held \in [Calendars -> HeldChoices] :
        /\ avPref' = r.time_preference
        /\ avTargetMins' = r.targetMins
        /\ avDateFilter' = r.requested_date
        /\ avStartAfter' = r.start_after
        /\ rmtHeld' = held
        /\ avCalendars' = calendarsToCheck(r.service)
        /\ IF Len(calendarsToCheck(r.service)) = 0
           THEN /\ avPc' = "done"
                /\ avDaysAhead' = avDaysAhead
                /\ avResponse' = <<[http |-> 400, success |-> FALSE,
                                    slots |-> <<>>]>>
           ELSE /\ avPc' = "fetch"
                /\ avDaysAhead' = FirstWindow
                /\ avResponse' = <<>>
    /\ UNCHANGED <<avAvailability, avFetched, avFailed>>
    /\ UNCHANGED <<envVars, dbVars, planVars, bookVars, fetchVars, cacheVars, dirVars, staffVars, dateVars, moreVars>>

\* fetchAllCalendarsForDays(daysAhead) returns and collectSlots runs: the
\* search answers, or goes on to the next window
AvailFetched ==
    /\ avPc = "fetch"
    /\ LET availability == fetchAllCalendarsForDays(avCalendars, avDaysAhead,
                                                    rmtHeld)
           resultSlots == collectSlots(availability, avDateFilter, avPref,
                                       avTargetMins)
       IN /\ avAvailability' = availability
          /\ avFetched' = Append(avFetched,
                 [daysAhead |-> avDaysAhead, threw |-> FALSE,
                  yielded |-> Len(resultSlots)])
          /\ IF Len(resultSlots) = 0 /\ avDaysAhead # LastWindow
             THEN /\ avDaysAhead' = nextWindow(avDaysAhead)
                  /\ UNCHANGED <<avPc, avResponse>>
             ELSE /\ avPc' = "done"
                  /\ avResponse' = <<[http |-> 200, success |-> TRUE,
                                      slots |-> resultSlots]>>
                  /\ UNCHANGED avDaysAhead
    /\ UNCHANGED <<avPref, avTargetMins, avDateFilter, avStartAfter,
                   avCalendars, avFailed, rmtHeld>>
    /\ UNCHANGED <<envVars, dbVars, planVars, bookVars, fetchVars, cacheVars, dirVars, staffVars, dateVars, moreVars>>

\* the slot fetch of at least one calendar throws: Promise.all rejects and
\* the handler's catch answers 500
AvailFetchThrows ==
    /\ avPc = "fetch"
    /\ \E failed \in SUBSET Range(avCalendars) \ {{}} : avFailed' = failed
    /\ avFetched' = Append(avFetched,
           [daysAhead |-> avDaysAhead, threw |-> TRUE, yielded |-> 0])
    /\ avPc' = "done"
    /\ avResponse' = <<[http |-> 500, success |-> FALSE, slots |-> <<>>]>>
    /\ UNCHANGED <<avPref, avTargetMins, avDateFilter, avStartAfter,
                   avCalendars, avDaysAhead, avAvailability, rmtHeld>>
    /\ UNCHANGED <<envVars, dbVars, planVars, bookVars, fetchVars, cacheVars, dirVars, staffVars, dateVars, moreVars>>

AvailNext == AvailStart \/ AvailFetched \/ AvailFetchThrows

AvailInit == EnvInit /\ DbInit /\ PlanIdle /\ BookIdle /\ AvailIdle /\ FetchIdle /\ CacheIdle /\ DirIdle /\ StaffIdle /\ DateIdle /\ MoreIdle

SpecAvail == AvailInit /\ [][AvailNext]_vars

----------------------------------------------------------------------------
(* Claims about the availability search *)

AvailAnswered == avPc = "done" /\ avResponse[1].http = 200

\* the entries of availabilityByDate, as <<date key, position>>, on the
\* dates the date filter lets through
AvailEntries ==
    UNION {{dateKey} \X DOMAIN avAvailability[dateKey] :
              dateKey \in {d \in DOMAIN avAvailability :
                              avDateFilter = <<>> \/ d = avDateFilter[1]}}

\* C5: the availability search answers with at most 3 slots when no
\* requested time is set and at most 5 when one is set, whatever the
\* calendars hold and whichever window answered.
C5_ResultCap ==
    AvailAnswered =>
        Len(avResponse[1].slots) <= IF avTargetMins # <<>> THEN 5 ELSE 3

\* a search with a requested time and no other filter that had six or more
\* slots to choose from and answered with five
C5_Witness ==
    /\ AvailAnswered
    /\ avTargetMins # <<>>
    /\ avPref = <<>>
    /\ avDateFilter = <<>>
    /\ Cardinality(AvailEntries) >= 6
    /\ Len(avResponse[1].slots) = 5

\* C6 as stated: every slot the availability search answers with starts at
\* or after the instant of the request plus 15 minutes.
C6_AsStated ==
    AvailAnswered =>
        \A i \in DOMAIN avResponse[1].slots :
            SlotEpoch(avResponse[1].slots[i].startTime) >= realNow + 15

\* C7: the windows fetched are 7, 14 and 30 days in that order; a window is
\* fetched only after every window before it returned and yielded no slot;
\* the search answers from the first window that yields a slot, and answers
\* with no slot only after the 30-day window yielded none; nothing is
\* fetched after that.
C7_WindowExtension ==
    /\ Len(avFetched) <= 3
    /\ \A k \in DOMAIN avFetched :
           /\ avFetched[k].daysAhead = <<7, 14, 30>>[k]
           /\ k < Len(avFetched) =>
                  ~avFetched[k].threw /\ avFetched[k].yielded = 0
    /\ avPc = "fetch" =>
           /\ Len(avFetched) < 3
           /\ avDaysAhead = <<7, 14, 30>>[Len(avFetched) + 1]
           /\ \A k \in DOMAIN avFetched : avFetched[k].yielded = 0
    /\ AvailAnswered =>
           /\ Len(avFetched) >= 1
           /\ avFetched[Len(avFetched)].yielded = Len(avResponse[1].slots)
           /\ avFetched[Len(avFetched)].yielded > 0 \/ Len(avFetched) = 3

\* a search that found nothing in 7 and in 14 days and answered with a slot
\* from the 30-day window
C7_Witness ==
    /\ AvailAnswered
    /\ Len(avFetched) = 3
    /\ avFetched[2].yielded = 0
    /\ Len(avResponse[1].slots) > 0

\* C8: with preference morning the search answers only with slots whose
\* hour is below 12, with preference afternoon only with slots whose hour
\* is above 12 or is 12 with minute 15 or more, so never with a slot from
\* 12:00 to 12:14; and no slot is dropped for its time of day otherwise:
\* with a requested time the answer holds as many slots as pass the test,
\* up to the limit, and without one it holds the earliest passing slot of
\* each date that has one, up to the limit.
C8_TimeOfDayBoundary ==
    (AvailAnswered /\ (avPref = <<"morning">> \/ avPref = <<"afternoon">>)) =>
        LET Keeps(slot) ==
                IF avPref = <<"morning">> THEN SlotHour(slot) < 12
                ELSE \/ SlotHour(slot) > 12
                     \/ SlotHour(slot) = 12 /\ SlotMinute(slot) >= 15
            slots == avResponse[1].slots
            passing == {p \in AvailEntries :
                           Keeps(avAvailability[p[1]][p[2]].slot)}
            limit == IF avTargetMins # <<>> THEN 5 ELSE 3
            Least(a, b) == IF a <= b THEN a ELSE b
        IN /\ \A i \in DOMAIN slots :
                  /\ Keeps(slots[i].startTime)
                  /\ ~(SlotHour(slots[i].startTime) = 12
                       /\ SlotMinute(slots[i].startTime) < 15)
           /\ avTargetMins # <<>> =>
                  Len(slots) = Least(limit, Cardinality(passing))
           /\ avTargetMins = <<>> =>
                  /\ Len(slots) =
                         Least(limit, Cardinality({p[1] : p \in passing}))
                  /\ \A i \in DOMAIN slots : \A p \in passing :
                         p[1] = slots[i].date =>
                             avAvailability[p[1]][p[2]].slot >= slots[i].startTime

\* an afternoon search over a day that has slots at 12:00, 12:10 and 12:15
\* and answers with the one at 12:15
C8_Witness ==
    /\ AvailAnswered
    /\ avPref = <<"afternoon">>
    /\ avTargetMins = <<>>
    /\ 3 \in DOMAIN avAvailability
    /\ {SlotAt(3, 12, 0), SlotAt(3, 12, 10), SlotAt(3, 12, 15)} \subseteq
           {avAvailability[3][i].slot : i \in DOMAIN avAvailability[3]}
    /\ avResponse[1].slots[1].startTime = SlotAt(3, 12, 15)

\* C10 as stated: when the slot fetch throws for some but not all of
\* several calendars the search still answers with slots, and when it
\* throws for the only calendar the request ends with an error.
C10_AsStated ==
    (avPc = "done" /\ avFailed # {}) =>
        IF Len(avCalendars) >= 2 /\ avFailed # Range(avCalendars)
        THEN avResponse[1].http = 200
        ELSE Len(avCalendars) = 1 => avResponse[1].http = 500

----------------------------------------------------------------------------
(* The slot fetches of one fetchAllCalendarsForDays, run in parallel, with  *)
(* the client of GHL.requests and the token refresh they share              *)

\* the fetch of calendar c sends a free-slots request
Sent(c) == [ftLog EXCEPT ![c] = Append(@, "request")]

\* the direct request with installation.access_token
FetchSend(c) ==
    /\ ftPc[c] = "idle"
    /\ ftPc' = [ftPc EXCEPT ![c] = "direct"]
    /\ ftLog' = Sent(c)
    /\ UNCHANGED <<tokenExpired, refreshInFlight>>
    /\ UNCHANGED <<envVars, dbVars, planVars, bookVars, availVars, cacheVars, dirVars, staffVars, dateVars, moreVars>>

\* a request is answered with slots
FetchAnswered(c) ==
    /\ ftPc[c] \in {"direct", "client", "resent"}
    /\ ftPc' = [ftPc EXCEPT ![c] = "returned"]
    /\ UNCHANGED <<ftLog, tokenExpired, refreshInFlight>>
    /\ UNCHANGED <<envVars, dbVars, planVars, bookVars, availVars, cacheVars, dirVars, staffVars, dateVars, moreVars>>

\* a request fails with anything but 401: the fetch throws
FetchRejected(c) ==
    /\ ftPc[c] \in {"direct", "client", "resent"}
    /\ ftPc' = [ftPc EXCEPT ![c] = "threw"]
    /\ UNCHANGED <<ftLog, tokenExpired, refreshInFlight>>
    /\ UNCHANGED <<envVars, dbVars, planVars, bookVars, availVars, cacheVars, dirVars, staffVars, dateVars, moreVars>>

\* the direct request is answered 401: the catch calls ghl.requests, which
\* reads the installation
FetchDirectUnauthorized(c) ==
    /\ ftPc[c] = "direct"
    /\ ftPc' = [ftPc EXCEPT ![c] = "requests"]
    /\ UNCHANGED <<ftLog, tokenExpired, refreshInFlight>>
    /\ UNCHANGED <<envVars, dbVars, planVars, bookVars, availVars, cacheVars, dirVars, staffVars, dateVars, moreVars>>

\* ghl.requests: a token past its expiry is refreshed first, joining a
\* refresh in progress; otherwise the client sends the request again
FetchClient(c) ==
    /\ ftPc[c] = "requests"
    /\ IF tokenExpired
       THEN /\ ftPc' = [ftPc EXCEPT ![c] = "proactive"]
            /\ ftLog' = [ftLog EXCEPT ![c] = Append(@, "refresh")]
            /\ refreshInFlight' = TRUE
       ELSE /\ ftPc' = [ftPc EXCEPT ![c] = "client"]
            /\ ftLog' = Sent(c)
            /\ UNCHANGED refreshInFlight
    /\ UNCHANGED tokenExpired
    /\ UNCHANGED <<envVars, dbVars, planVars, bookVars, availVars, cacheVars, dirVars, staffVars, dateVars, moreVars>>

\* the client's request is answered 401 and _retry is not set: the response
\* interceptor sets it and refreshes, joining a refresh in progress
FetchClientUnauthorized(c) ==
    /\ ftPc[c] = "client"
    /\ ftPc' = [ftPc EXCEPT ![c] = "forced"]
    /\ ftLog' = [ftLog EXCEPT ![c] = Append(@, "refresh")]
    /\ refreshInFlight' = TRUE
    /\ UNCHANGED tokenExpired
    /\ UNCHANGED <<envVars, dbVars, planVars, bookVars, availVars, cacheVars, dirVars, staffVars, dateVars, moreVars>>

\* the request the interceptor sent again is answered 401: rejected
FetchResentUnauthorized(c) ==
    /\ ftPc[c] = "resent"
    /\ ftPc' = [ftPc EXCEPT ![c] = "threw"]
    /\ UNCHANGED <<ftLog, tokenExpired, refreshInFlight>>
    /\ UNCHANGED <<envVars, dbVars, planVars, bookVars, availVars, cacheVars, dirVars, staffVars, dateVars, moreVars>>

\* _doRefresh stores new tokens: every fetch waiting on the refresh goes
\* on and sends its request
RefreshDone ==
    /\ refreshInFlight
    /\ refreshInFlight' = FALSE
    /\ tokenExpired' = FALSE
    /\ ftPc' = [c \in Calendars |->
                   IF ftPc[c] = "proactive" THEN "client"
                   ELSE IF ftPc[c] = "forced" THEN "resent"
                   ELSE ftPc[c]]
    /\ ftLog' = [c \in Calendars |->
                    IF ftPc[c] \in {"proactive", "forced"}
                    THEN Append(ftLog[c], "request")
                    ELSE ftLog[c]]
    /\ UNCHANGED <<envVars, dbVars, planVars, bookVars, availVars, cacheVars, dirVars, staffVars, dateVars, moreVars>>

\* _doRefresh throws: every fetch waiting on the refresh throws
RefreshFailed ==
    /\ refreshInFlight
    /\ refreshInFlight' = FALSE
    /\ ftPc' = [c \in Calendars |->
                   IF ftPc[c] \in {"proactive", "forced"} THEN "threw"
                   ELSE ftPc[c]]
    /\ UNCHANGED <<ftLog, tokenExpired>>
    /\ UNCHANGED <<envVars, dbVars, planVars, bookVars, availVars, cacheVars, dirVars, staffVars, dateVars, moreVars>>

FetchNext ==
    \/ \E c \in Calendars :
        \/ FetchSend(c)
        \/ FetchAnswered(c)
        \/ FetchRejected(c)
        \/ FetchDirectUnauthorized(c)
        \/ FetchClient(c)
        \/ FetchClientUnauthorized(c)
        \/ FetchResentUnauthorized(c)
    \/ RefreshDone
    \/ RefreshFailed

FetchInit ==
    /\ EnvInit /\ DbInit /\ PlanIdle /\ BookIdle /\ AvailIdle /\ CacheIdle
    /\ DirIdle /\ StaffIdle /\ DateIdle /\ MoreIdle
    /\ ftPc = [c \in Calendars |-> "idle"]
    /\ ftLog = [c \in Calendars |-> <<>>]
    /\ tokenExpired \in BOOLEAN
    /\ refreshInFlight = FALSE

SpecFetch == FetchInit /\ [][FetchNext]_vars

----------------------------------------------------------------------------
(* Claims about the slot fetch *)

Requests(c) == Cardinality({k \in DOMAIN ftLog[c] : ftLog[c][k] = "request"})

\* C9 as stated: one slot fetch sends at most two requests to the remote
\* calendar, and the second one only after a credential refresh.
C9_AsStated ==
    \A c \in Calendars :
        /\ Requests(c) <= 2
        /\ Len(ftLog[c]) >= 2 => ftLog[c][2] = "refresh"

----------------------------------------------------------------------------
(* Schedule cache: getCalendarSchedule and the three routes that call it   *)

Routes == {"free-slots", "business-hours", "location-info"}

WEEKDAYS_DEFAULT == {1, 2, 3, 4, 5}

\* the open days a reference week may show: Tuesday to Saturday, Monday and
\* Wednesday, none
ScheduleChoices == {{2, 3, 4, 5, 6}, {1, 3}, {}}

\* the cache test with the hour itself still counted as fresh
isFresh_Inclusive(cached, now) ==
    cached # <<>> /\ now - cached[1].fetchedAt <= SCHEDULE_CACHE_TTL

\* cached && Date.now() - cached.fetchedAt < SCHEDULE_CACHE_TTL
isFresh(cached, now) ==
    cached # <<>> /\ now - cached[1].fetchedAt < SCHEDULE_CACHE_TTL

\* the caller goes on with the schedule it got: /free-slots to its own slot
\* request, the other two to their response
withSchedule(call, openDays) ==
    IF call.route = "free-slots"
    THEN [call EXCEPT !.pc = "slots", !.openDays = <<openDays>>]
    ELSE [call EXCEPT !.pc = "done", !.openDays = <<openDays>>, !.http = 200]

\* getCalendarSchedule threw: /free-slots keeps WEEKDAYS_DEFAULT and goes
\* on, /business-hours falls to its catch, /location-info keeps every day
\* "Closed" and answers
scheduleFailed(call) ==
    IF call.route = "free-slots"
    THEN [call EXCEPT !.pc = "slots", !.threw = TRUE,
                      !.openDays = <<WEEKDAYS_DEFAULT>>]
    ELSE IF call.route = "business-hours"
    THEN [call EXCEPT !.pc = "done", !.threw = TRUE, !.http = 500]
    ELSE [call EXCEPT !.pc = "done", !.threw = TRUE, !.openDays = <<{}>>,
                      !.http = 200]

\* a request reaches getCalendarSchedule: a fresh entry is returned, else
\* the reference week is requested
CacheLookup(k) ==
    /\ scCall[k].pc = "idle"
    /\ \E route \in Routes, c \in Calendars :
        LET call == [scCall[k] EXCEPT
                        !.route = route, !.calendar = c,
                        !.fresh = scLast[c] # <<>>
                                  /\ scNow - scLast[c][1].fetchedAt < 60]
        IN IF isFresh(scheduleCache[c], scNow)
           THEN scCall' = [scCall EXCEPT ![k] =
                    withSchedule([call EXCEPT !.hit = TRUE],
                                 scheduleCache[c][1].openDays)]
           ELSE scCall' = [scCall EXCEPT ![k] =
                    [call EXCEPT !.pc = "schedule", !.fetches = 1]]
    /\ UNCHANGED <<scNow, scheduleCache, scLast>>
    /\ UNCHANGED <<envVars, dbVars, planVars, bookVars, availVars, fetchVars, dirVars, staffVars, dateVars, moreVars>>

\* the reference week is answered: the entry is set and the schedule
\* returned
CacheFetchReturns(k) ==
    /\ scCall[k].pc = "schedule"
    /\ \E openDays \in ScheduleChoices :
        /\ scheduleCache' = [scheduleCache EXCEPT ![scCall[k].calendar] =
               <<[openDays |-> openDays, fetchedAt |-> scNow]>>]
        /\ scLast' = [scLast EXCEPT ![scCall[k].calendar] =
               <<[openDays |-> openDays, fetchedAt |-> scNow]>>]
        /\ scCall' = [scCall EXCEPT ![k] = withSchedule(@, openDays)]
    /\ UNCHANGED scNow
    /\ UNCHANGED <<envVars, dbVars, planVars, bookVars, availVars, fetchVars, dirVars, staffVars, dateVars, moreVars>>

\* the reference-week request fails: getCalendarSchedule throws
CacheFetchThrows(k) ==
    /\ scCall[k].pc = "schedule"
    /\ scCall' = [scCall EXCEPT ![k] = scheduleFailed(@)]
    /\ UNCHANGED <<scNow, scheduleCache, scLast>>
    /\ UNCHANGED <<envVars, dbVars, planVars, bookVars, availVars, fetchVars, dirVars, staffVars, dateVars, moreVars>>

\* the slot request of /free-slots is answered, or fails and the handler's
\* catch answers 500
FreeSlotsAnswered(k) ==
    /\ scCall[k].pc = "slots"
    /\ \E http \in {200, 500} :
        scCall' = [scCall EXCEPT ![k] = [@ EXCEPT !.pc = "done", !.http = http]]
    /\ UNCHANGED <<scNow, scheduleCache, scLast>>
    /\ UNCHANGED <<envVars, dbVars, planVars, bookVars, availVars, fetchVars, dirVars, staffVars, dateVars, moreVars>>

\* half an hour passes
CacheTick ==
    /\ scNow < MaxClock
    /\ scNow' = scNow + 30
    /\ UNCHANGED <<scheduleCache, scCall, scLast>>
    /\ UNCHANGED <<envVars, dbVars, planVars, bookVars, availVars, fetchVars, dirVars, staffVars, dateVars, moreVars>>

CacheNext ==
    \/ \E k \in Callers :
        \/ CacheLookup(k)
        \/ CacheFetchReturns(k)
        \/ CacheFetchThrows(k)
        \/ FreeSlotsAnswered(k)
    \/ CacheTick

CacheInit ==
    /\ EnvInit /\ DbInit /\ PlanIdle /\ BookIdle /\ AvailIdle /\ FetchIdle
    /\ CacheIdle /\ DirIdle /\ StaffIdle /\ DateIdle /\ MoreIdle

SpecCache == CacheInit /\ [][CacheNext]_vars

----------------------------------------------------------------------------
(* Claims about the schedule cache *)

\* C11: a lookup made less than 60 minutes after the last reference-week
\* fetch of its calendar that returned gets that fetch's schedule from the
\* cache and sends no request; a lookup made 60 minutes or more after it,
\* or with no such fetch, sends exactly one reference-week request; the
\* entry of a calendar is always what the last fetch that returned stored,
\* and changes only when a fetch for that calendar returns, to that
\* fetch's schedule stamped with the time of its return.
C11_ScheduleCache ==
    /\ [](\A k \in Callers :
            scCall[k].pc # "idle" =>
                /\ scCall[k].hit <=> scCall[k].fresh
                /\ scCall[k].hit => scCall[k].fetches = 0
                /\ ~scCall[k].hit => scCall[k].fetches = 1)
    /\ [](\A c \in Calendars : scheduleCache[c] = scLast[c])
    /\ [][\A c \in Calendars :
            scheduleCache'[c] # scheduleCache[c] =>
                /\ scheduleCache'[c] # <<>>
                /\ scheduleCache'[c][1].fetchedAt = scNow
                /\ \E k \in Callers :
                       /\ scCall[k].pc = "schedule"
                       /\ scCall[k].calendar = c
                       /\ scCall'[k].pc # "schedule"
                       /\ scCall'[k].openDays =
                              <<scheduleCache'[c][1].openDays>>]_vars

\* one caller fetched at minute 30 and the other, 60 minutes later, fetched
\* again and replaced the entry
C11_Witness ==
    /\ scCall["r1"].pc = "done" /\ scCall["r2"].pc = "done"
    /\ scCall["r1"].calendar = scCall["r2"].calendar
    /\ ~scCall["r1"].hit /\ ~scCall["r1"].threw
    /\ ~scCall["r2"].hit /\ ~scCall["r2"].threw
    /\ scCall["r1"].openDays # scCall["r2"].openDays
    /\ scNow = 90
    /\ scheduleCache[scCall["r2"].calendar] =
           <<[openDays |-> scCall["r2"].openDays[1], fetchedAt |-> 90]>>

\* C12 as stated: a caller whose reference-week fetch failed ends without
\* an error and with the open days Monday to Friday.
C12_AsStated ==
    \A k \in Callers :
        (scCall[k].threw /\ scCall[k].pc \in {"slots", "done"}) =>
            /\ scCall[k].http # 500 \/ scCall[k].route = "free-slots"
            /\ scCall[k].openDays = <<{1, 2, 3, 4, 5}>>

----------------------------------------------------------------------------
(* Calendar resolution of POST /check-availability: staff, service, gender *)

Genders == {"male", "female"}

\* ilike '%staffName%' on user_name: the names a requested name is part of
NameMatches(staffName, user_name) ==
    \/ staffName = "ann" /\ user_name \in {"Ann", "Anna"}
    \/ staffName = "bo" /\ user_name = "Bo"

getCalendarsForStaffMember(staffName) ==
    SelectSeq(teamMembers, LAMBDA m : NameMatches(staffName, m.user_name))

getSyncedCalendars ==
    SelectSeq(CalOrder, LAMBDA c :
        c \in DOMAIN syncedCalendars /\ syncedCalendars[c].is_active)

getSyncedTeamMembers(calendarId) ==
    SelectSeq(teamMembers, LAMBDA m : m.calendar_id = calendarId)

getCalendarsForService(service) ==
    SelectSeq(serviceMappings, LAMBDA m : m.service_name = service)

getTeamMembersByGender(calendarId, gender) ==
    SelectSeq(teamMembers, LAMBDA m :
        m.calendar_id = calendarId /\ m.gender = <<gender>>)

\* members.find(m => m.is_primary) || members[0], as the staff_id of the
\* entry: <<>> when the calendar has no member
primaryStaffId(members) ==
    LET primary == SelectSeq(members, LAMBDA m : m.is_primary)
    IN IF Len(primary) > 0 THEN <<primary[1].user_id>>
       ELSE IF Len(members) > 0 THEN <<members[1].user_id>>
       ELSE <<>>

\* the synced calendars the staff member is assigned to, each with the
\* first matching member of that calendar
staffEntries(syncedCals, staffMembers) ==
    LET mine == SelectSeq(syncedCals, LAMBDA c :
                    \E i \in DOMAIN staffMembers :
                        staffMembers[i].calendar_id = c)
    IN [k \in 1..Len(mine) |->
           [calendar_id |-> mine[k],
            staff_id |-> <<SelectSeq(staffMembers, LAMBDA m :
                               m.calendar_id = mine[k])[1].user_id>>]]

primaryEntries(syncedCals) ==
    [k \in 1..Len(syncedCals) |->
        [calendar_id |-> syncedCals[k],
         staff_id |-> primaryStaffId(getSyncedTeamMembers(syncedCals[k]))]]

mappingEntries(mappings) ==
    [k \in 1..Len(mappings) |->
        [calendar_id |-> mappings[k].calendar_id, staff_id |-> <<>>]]

\* the service-only branch with the manual mappings consulted first
serviceOnlyEntries_MappingsFirst(service) ==
    LET mappings == getCalendarsForService(service)
    IN IF Len(mappings) > 0 THEN mappingEntries(mappings)
       ELSE primaryEntries(getSyncedCalendarsForService(service))

\* the service-only branch: the synced calendars of the service, the manual
\* mappings when there is none
serviceOnlyEntries(service) ==
    LET syncedCals == getSyncedCalendarsForService(service)
    IN IF Len(syncedCals) > 0 THEN primaryEntries(syncedCals)
       ELSE mappingEntries(getCalendarsForService(service))

\* calendarsToCheck before the fallback; found is FALSE when staff_name
\* matches no team member and the handler answers 404
resolveCalendars(staff_name, service) ==
    IF staff_name # <<>>
    THEN LET staffMembers == getCalendarsForStaffMember(staff_name[1])
         IN IF Len(staffMembers) = 0 THEN [found |-> FALSE, entries |-> <<>>]
            ELSE IF service # <<>>
            THEN [found |-> TRUE,
                  entries |-> staffEntries(
                      getSyncedCalendarsForService(service[1]), staffMembers)]
            ELSE [found |-> TRUE,
                  entries |-> staffEntries(getSyncedCalendars, staffMembers)]
    ELSE IF service # <<>>
    THEN [found |-> TRUE, entries |-> serviceOnlyEntries(service[1])]
    ELSE [found |-> TRUE, entries |-> primaryEntries(getSyncedCalendars)]

\* the fallback to installation.calendar_id; still empty when there is none
withDefaultCalendar(entries) ==
    IF Len(entries) > 0 THEN entries
    ELSE [k \in DOMAIN defaultCalendar |->
             [calendar_id |-> defaultCalendar[k], staff_id |-> <<>>]]

\* the gender filter applies to therapist_preference male or female only
isGenderPreference(therapist_preference) ==
    therapist_preference # <<>> /\ therapist_preference[1] \in Genders

\* genderFilteredCalendars with one entry per calendar: its first member of
\* the gender
genderFilteredCalendars_PerCalendar(entries, gender) ==
    Concat([k \in 1..Len(entries) |->
        LET genderMembers == getTeamMembersByGender(entries[k].calendar_id,
                                                    gender)
        IN [j \in 1..(IF Len(genderMembers) > 0 THEN 1 ELSE 0) |->
               [calendar_id |-> entries[k].calendar_id,
                staff_id |-> <<genderMembers[j].user_id>>]]], 1)

\* genderFilteredCalendars: one entry per member of the gender per entry
genderFilteredCalendars(entries, gender) ==
    Concat([k \in 1..Len(entries) |->
        LET genderMembers == getTeamMembersByGender(entries[k].calendar_id,
                                                    gender)
        IN [j \in 1..Len(genderMembers) |->
               [calendar_id |-> entries[k].calendar_id,
                staff_id |-> <<genderMembers[j].user_id>>]]], 1)

\* fetchSlotsForCalendar for an entry: every slot carries the entry's staff
fetchSlotsForEntry(entry, daysAhead, held) ==
    LET slots == fetchSlotsForCalendar(entry.calendar_id, daysAhead, held)
    IN [k \in 1..Len(slots) |->
           [slot |-> slots[k].slot, calendar_id |-> entry.calendar_id,
            staff_id |-> entry.staff_id]]

fetchAllEntriesForDays(entries, daysAhead, held) ==
    LET all == Concat([k \in 1..Len(entries) |->
                   fetchSlotsForEntry(entries[k], daysAhead, held)], 1)
    IN [dateKey \in {SlotDateKey(all[i].slot) : i \in DOMAIN all} |->
           LET onDay == SelectSeq(all, LAMBDA e : SlotDateKey(e.slot) = dateKey)
           IN StableSort(onDay, [i \in DOMAIN onDay |-> onDay[i].slot])]

\* the default mode of collectSlots with the staff of each slot
collectStaffSlots(availability) ==
    LET dates == Ascending(DOMAIN availability)
        picked == Take(dates, maxSlots(<<>>))
    IN [k \in 1..Len(picked) |->
           [date |-> picked[k],
            startTime |-> availability[picked[k]][1].slot,
            calendar_id |-> availability[picked[k]][1].calendar_id,
            staff_id |-> availability[picked[k]][1].staff_id]]

\* the free-slots requests of one window, userId set for entries with staff
requestsOf(entries, daysAhead) ==
    [k \in 1..Len(entries) |->
        [calendar_id |-> entries[k].calendar_id,
         userId |-> entries[k].staff_id, daysAhead |-> daysAhead]]

Member(calendarId, userId, userName, gender, isPrimary) ==
    [calendar_id |-> calendarId, user_id |-> userId, user_name |-> userName,
     gender |-> gender, is_primary |-> isPrimary]

\* directory contents: Ann on both calendars and Bo on calA; Bo on an
\* inactive calendar that a manual mapping names, Anna of unknown gender on
\* the default calendar; nothing synced but a default calendar; nothing
DirChoices ==
    {[cals |-> [c \in Calendars |->
                   IF c = "calA" THEN Row({"s1"}, 60, 15) ELSE Row({"s2"}, 60, 15)],
      dflt |-> <<>>,
      members |-> <<Member("calA", "u1", "Ann", <<"female">>, FALSE),
                    Member("calA", "u2", "Bo", <<"male">>, TRUE),
                    Member("calB", "u1", "Ann", <<"female">>, TRUE),
                    Member("calB", "u3", "Anna", <<"female">>, FALSE)>>,
      mappings |-> <<[service_name |-> "s1", calendar_id |-> "calB"]>>],
     [cals |-> [c \in Calendars |->
                   IF c = "calA" THEN Row({"s1"}, 60, 15)
                   ELSE [Row({"s1", "s2"}, 60, 15) EXCEPT !.is_active = FALSE]],
      dflt |-> <<"calA">>,
      members |-> <<Member("calB", "u2", "Bo", <<"male">>, TRUE),
                    Member("calA", "u3", "Anna", <<>>, FALSE)>>,
      mappings |-> <<[service_name |-> "s2", calendar_id |-> "calB"]>>],
     [cals |-> <<>>,
      dflt |-> <<"calB">>,
      members |-> <<>>,
      mappings |-> <<>>],
     [cals |-> <<>>,
      dflt |-> <<>>,
      members |-> <<>>,
      mappings |-> <<>>]}

DirInit ==
    \E d \in DirChoices :
        /\ syncedCalendars = d.cals
        /\ defaultCalendar = d.dflt
        /\ teamMembers = d.members
        /\ serviceMappings = d.mappings

StaffRequests ==
    [staff_name : {<<>>, <<"ann">>, <<"bo">>, <<"zed">>},
     service : {<<>>, <<"s1">>, <<"s2">>},
     therapist_preference : {<<>>, <<"male">>, <<"female">>, <<"any">>}]

\* what one remote calendar may hold: nothing; two slots tomorrow and one
\* the day after; one slot ten days ahead
StaffHeldChoices ==
    {{},
     {SlotAt(4, 9, 0), SlotAt(4, 10, 30), SlotAt(5, 9, 0)},
     {SlotAt(13, 9, 0)}}

Answer(http, success, error, slots) ==
    [http |-> http, success |-> success, error |-> error, slots |-> slots]

\* the handler up to the first fetch: calendar resolution, fallback and
\* gender filter
StaffStart ==
    /\ stPc = "idle"
    /\ \E r \in StaffRequests, held \in [Calendars -> StaffHeldChoices] :
        LET resolved == resolveCalendars(r.staff_name, r.service)
            calendars == withDefaultCalendar(resolved.entries)
            gender == isGenderPreference(r.therapist_preference)
            entries == IF gender
                       THEN genderFilteredCalendars(calendars,
                                r.therapist_preference[1])
                       ELSE calendars
            answer == IF ~resolved.found
                      THEN <<Answer(404, FALSE,
                                 "No staff member found with that name", <<>>)>>
                      ELSE IF Len(calendars) = 0
                      THEN <<Answer(400, FALSE,
                                 "No calendar configured for this location",
                                 <<>>)>>
                      ELSE IF Len(entries) = 0
                      THEN <<Answer(200, FALSE,
                                 IF r.therapist_preference[1] = "male"
                                 THEN "No male therapists available"
                                 ELSE "No female therapists available",
                                 <<>>)>>
                      ELSE <<>>
        IN /\ stRequest' = <<r>>
           /\ stHeld' = held
           /\ stResolved' = IF resolved.found THEN calendars ELSE <<>>
           /\ stEntries' = IF answer = <<>> THEN entries ELSE <<>>
           /\ stResponse' = answer
           /\ stPc' = IF answer = <<>> THEN "fetch" ELSE "done"
           /\ stDaysAhead' = IF answer = <<>> THEN FirstWindow ELSE 0
    /\ UNCHANGED stSent
    /\ UNCHANGED <<envVars, dbVars, dirVars, planVars, bookVars, availVars, fetchVars, cacheVars, dateVars, moreVars>>

\* fetchAllCalendarsForDays(daysAhead) returns and collectSlots runs
StaffFetched ==
    /\ stPc = "fetch"
    /\ LET availability == fetchAllEntriesForDays(stEntries, stDaysAhead, stHeld)
           resultSlots == collectStaffSlots(availability)
       IN IF Len(resultSlots) = 0 /\ stDaysAhead # LastWindow
          THEN /\ stDaysAhead' = nextWindow(stDaysAhead)
               /\ UNCHANGED <<stPc, stResponse>>
          ELSE /\ stPc' = "done"
               /\ stResponse' = <<Answer(200, TRUE, "", resultSlots)>>
               /\ UNCHANGED stDaysAhead
    /\ stSent' = stSent \o requestsOf(stEntries, stDaysAhead)
    /\ UNCHANGED <<stRequest, stResolved, stEntries, stHeld>>
    /\ UNCHANGED <<envVars, dbVars, dirVars, planVars, bookVars, availVars, fetchVars, cacheVars, dateVars, moreVars>>

\* a slot fetch throws: the handler's catch answers 500
StaffFetchThrows ==
    /\ stPc = "fetch"
    /\ stPc' = "done"
    /\ stResponse' = <<Answer(500, FALSE, "upstream", <<>>)>>
    /\ stSent' = stSent \o requestsOf(stEntries, stDaysAhead)
    /\ UNCHANGED <<stRequest, stResolved, stEntries, stDaysAhead, stHeld>>
    /\ UNCHANGED <<envVars, dbVars, dirVars, planVars, bookVars, availVars, fetchVars, cacheVars, dateVars, moreVars>>

StaffNext == StaffStart \/ StaffFetched \/ StaffFetchThrows

StaffInit ==
    /\ EnvInit /\ DirInit /\ PlanIdle /\ BookIdle /\ AvailIdle /\ FetchIdle
    /\ CacheIdle /\ StaffIdle /\ DateIdle /\ MoreIdle

SpecStaff == StaffInit /\ [][StaffNext]_vars

----------------------------------------------------------------------------
(* Claims about the calendar resolution *)

StaffAssigned(staffName) ==
    {teamMembers[i].calendar_id :
        i \in {j \in DOMAIN teamMembers :
                  NameMatches(staffName, teamMembers[j].user_name)}}

ActiveSynced == {c \in DOMAIN syncedCalendars : syncedCalendars[c].is_active}

SyncedFor(service) == {c \in ActiveSynced : service \in syncedCalendars[c].offers}

MappedFor(service) ==
    {serviceMappings[i].calendar_id :
        i \in {j \in DOMAIN serviceMappings :
                  serviceMappings[j].service_name = service}}

OrDefault(S) == IF S = {} THEN Range(defaultCalendar) ELSE S

\* the calendars of calendarsToCheck before the gender filter
StaffSearched == {stResolved[i].calendar_id : i \in DOMAIN stResolved}

\* C13 as stated: the calendars searched are, with staff and service, the
\* calendars assigned to the staff member that are synced for the service;
\* with staff only, all calendars assigned to the staff member; with
\* service only, the calendars synced for it, or the manual mappings of the
\* service when there is none; with neither, every synced calendar; and
\* the default calendar when that set is empty.
C13_AsStated ==
    stPc # "idle" =>
        LET r == stRequest[1]
        IN StaffSearched = OrDefault(
            IF r.staff_name # <<>> /\ r.service # <<>>
            THEN StaffAssigned(r.staff_name[1]) \cap SyncedFor(r.service[1])
            ELSE IF r.staff_name # <<>> THEN StaffAssigned(r.staff_name[1])
            ELSE IF r.service # <<>>
            THEN (IF SyncedFor(r.service[1]) # {} THEN SyncedFor(r.service[1])
                  ELSE MappedFor(r.service[1]))
            ELSE ActiveSynced)

\* C13: a staff name that matches no team member ends the request with 404
\* and nothing is searched; otherwise the calendars searched are, with
\* staff and service, the calendars assigned to the staff member that are
\* synced for the service; with staff only, the active synced calendars
\* assigned to the staff member; with service only, the calendars synced
\* for it, or the manual mappings of the service when there is none; with
\* neither, every active synced calendar; and the default calendar when
\* that set is empty. With no calendar at all the request ends with 400,
\* and without a gender preference the slot requests go to exactly the
\* calendars searched.
C13_CalendarPrecedence ==
    stPc # "idle" =>
        LET r == stRequest[1]
        IN IF r.staff_name # <<>> /\ StaffAssigned(r.staff_name[1]) = {}
           THEN /\ stResponse[1].http = 404
                /\ StaffSearched = {}
                /\ stSent = <<>>
           ELSE /\ StaffSearched = OrDefault(
                    IF r.staff_name # <<>> /\ r.service # <<>>
                    THEN StaffAssigned(r.staff_name[1]) \cap SyncedFor(r.service[1])
                    ELSE IF r.staff_name # <<>>
                    THEN StaffAssigned(r.staff_name[1]) \cap ActiveSynced
                    ELSE IF r.service # <<>>
                    THEN (IF SyncedFor(r.service[1]) # {}
                          THEN SyncedFor(r.service[1])
                          ELSE MappedFor(r.service[1]))
                    ELSE ActiveSynced)
                /\ StaffSearched = {} => stResponse[1].http = 400
                /\ (stPc = "done" /\ ~isGenderPreference(r.therapist_preference)
                        /\ StaffSearched # {})
                       => {stSent[i].calendar_id : i \in DOMAIN stSent}
                              = StaffSearched

\* staff and service both given, the staff member assigned to two calendars
\* of which one is synced for the service: that one is searched and answers
C13_Witness ==
    /\ stPc = "done"
    /\ stRequest[1].staff_name # <<>>
    /\ stRequest[1].service # <<>>
    /\ ~isGenderPreference(stRequest[1].therapist_preference)
    /\ Cardinality(StaffAssigned(stRequest[1].staff_name[1])) = 2
    /\ Cardinality(StaffSearched) = 1
    /\ StaffSearched \subseteq SyncedFor(stRequest[1].service[1])
    /\ stResponse[1].http = 200
    /\ Len(stResponse[1].slots) > 0

\* the members of a gender on the calendars searched, as <<calendar, user>>
GenderStaff(gender) ==
    {<<teamMembers[i].calendar_id, teamMembers[i].user_id>> :
        i \in {j \in DOMAIN teamMembers :
                  /\ teamMembers[j].calendar_id \in StaffSearched
                  /\ teamMembers[j].gender = <<gender>>}}

\* C14: under a gender preference of male or female the entries searched
\* are exactly one per staff member of that gender per calendar, every slot
\* request names such a member, and every slot in the answer carries such a
\* member of its calendar; when the calendars searched have no member of
\* the gender, the answer is the no-therapists outcome with no slot and no
\* slot request is sent.
C14_GenderFilter ==
    (/\ stPc # "idle"
     /\ isGenderPreference(stRequest[1].therapist_preference)
     /\ StaffSearched # {}) =>
        LET gender == stRequest[1].therapist_preference[1]
        IN /\ stPc = "fetch" =>
                /\ {<<stEntries[i].calendar_id, stEntries[i].staff_id>> :
                        i \in DOMAIN stEntries}
                       = {<<p[1], <<p[2]>>>> : p \in GenderStaff(gender)}
                /\ Len(stEntries) = Cardinality(GenderStaff(gender))
           /\ \A i \in DOMAIN stSent :
                /\ stSent[i].userId # <<>>
                /\ <<stSent[i].calendar_id, stSent[i].userId[1]>>
                       \in GenderStaff(gender)
           /\ stPc = "done" =>
                \A i \in DOMAIN stResponse[1].slots :
                    LET s == stResponse[1].slots[i]
                    IN /\ s.staff_id # <<>>
                       /\ <<s.calendar_id, s.staff_id[1]>> \in GenderStaff(gender)
           /\ GenderStaff(gender) = {} =>
                /\ stPc = "done"
                /\ stResponse[1].http = 200
                /\ ~stResponse[1].success
                /\ stResponse[1].error \in {"No male therapists available",
                                             "No female therapists available"}
                /\ stResponse[1].slots = <<>>
                /\ stSent = <<>>
           /\ GenderStaff(gender) # {} => stPc = "fetch" \/ stSent # <<>>

\* a female therapist asked for on a calendar with two of them: both were
\* asked for their slots and the answer carries slots
C14_Witness ==
    /\ stPc = "done"
    /\ stRequest[1].therapist_preference = <<"female">>
    /\ Cardinality(StaffSearched) = 1
    /\ Cardinality(GenderStaff("female")) = 2
    /\ Cardinality({stSent[i].userId : i \in DOMAIN stSent}) = 2
    /\ stResponse[1].http = 200
    /\ stResponse[1].success
    /\ Len(stResponse[1].slots) > 0

----------------------------------------------------------------------------
(* Date phrases: parseDateRequest, parseRequestedDate and their callers *)

DAY_NAMES ==
    <<"sunday", "monday", "tuesday", "wednesday", "thursday", "friday",
      "saturday">>

NextDayPhrases ==
    <<"next sunday", "next monday", "next tuesday", "next wednesday",
      "next thursday", "next friday", "next saturday">>

\* what a caller may send as requested_date / selected_date
DatePhrases ==
    Range(DAY_NAMES) \cup Range(NextDayPhrases)
        \cup {"today", "tomorrow", "this weekend", "next week", "1970-01-14",
              " Next Friday", "someday"}

\* input.toLowerCase().trim()
normalize(input) == IF input = " Next Friday" THEN "next friday" ELSE input

\* /^\d{4}-\d{2}-\d{2}$/ and the date key the string spells
isISODate(n) == n = "1970-01-14"

ISODateKey(n) == 13

\* localNow.getDay(): the weekday of the server-local date of localNow; day
\* 0 of the epoch is a Thursday
getDay == ((LocalNowMs + srvOff) \div MinutesPerDay + 4) % 7

\* setDate(getDate() + n) followed by toISOString().split("T")[0]
addDays(n) == ToISODate(LocalNowMs + n * MinutesPerDay)

\* the position of a name in DAY_NAMES as a getDay() value, -1 if absent
dayIndex(names, n) ==
    IF \E i \in DOMAIN names : names[i] = n
    THEN (CHOOSE i \in DOMAIN names : names[i] = n) - 1
    ELSE 0 - 1

\* daysAhead of a bare weekday: the next occurrence, today excluded
daysToWeekday(dayIdx) ==
    IF dayIdx - getDay <= 0 THEN dayIdx - getDay + 7 ELSE dayIdx - getDay

\* daysAhead of "next <weekday>" in parseDateRequest
nextDaysAhead_Filter(targetDayIdx) ==
    IF daysToWeekday(targetDayIdx) < 7 THEN daysToWeekday(targetDayIdx) + 7
    ELSE daysToWeekday(targetDayIdx)

\* daysAhead of "next <weekday>" in parseRequestedDate
nextDaysAhead(targetDayIdx) == daysToWeekday(targetDayIdx) + 7

\* a date filter: the date keys it lets through are those in dates and,
\* with from set, every date key from from[1] on
OnDates(dates) == [dates |-> dates, from |-> <<>>]

FromDate(date) == [dates |-> {}, from |-> <<date>>]

\* parseDateRequest of /check-availability: <<>> for null, else <<filter>>
parseDateRequest(input) ==
    LET n == normalize(input)
    IN IF isISODate(n) THEN <<OnDates({ISODateKey(n)})>>
       ELSE IF n = "today" THEN <<OnDates({ToISODate(LocalNowMs)})>>
       ELSE IF n = "tomorrow" THEN <<OnDates({addDays(1)})>>
       ELSE IF n \in {"this weekend", "weekend"}
       THEN <<OnDates({addDays(6 - getDay), addDays(6 - getDay + 1)})>>
       ELSE IF n = "next week"
       THEN <<FromDate(addDays(IF (8 - getDay) % 7 # 0 THEN (8 - getDay) % 7
                                ELSE 7))>>
       ELSE IF dayIndex(NextDayPhrases, n) >= 0
       THEN <<OnDates({addDays(nextDaysAhead_Filter(
                                   dayIndex(NextDayPhrases, n)))})>>
       ELSE IF dayIndex(DAY_NAMES, n) >= 0
       THEN <<OnDates({addDays(daysToWeekday(dayIndex(DAY_NAMES, n)))})>>
       ELSE <<>>

\* parseRequestedDate: <<>> for null, else <<date key>>
parseRequestedDate(input) ==
    LET n == normalize(input)
    IN IF isISODate(n) THEN <<ISODateKey(n)>>
       ELSE IF n = "today" THEN <<ToISODate(LocalNowMs)>>
       ELSE IF n = "tomorrow" THEN <<addDays(1)>>
       ELSE IF dayIndex(DAY_NAMES, n) >= 0
       THEN <<addDays(daysToWeekday(dayIndex(DAY_NAMES, n)))>>
       ELSE IF dayIndex(NextDayPhrases, n) >= 0
       THEN <<addDays(nextDaysAhead(dayIndex(NextDayPhrases, n)))>>
       ELSE <<>>

\* the outcome of date resolution in a handler: the search goes on under
\* filter (<<>>: no date constraint), or the request has ended with http
DateOutcome(endpoint, input, http, filter, specificDate) ==
    [endpoint |-> endpoint, input |-> input, http |-> http,
     filter |-> filter, specificDate |-> specificDate]

startDateFilter(input) ==
    IF input = <<>> \/ parseRequestedDate(input[1]) = <<>> THEN <<>>
    ELSE <<OnDates({parseRequestedDate(input[1])[1]})>>

DateInputs == {<<>>} \cup {<<p>> : p \in DatePhrases}

\* POST /check-availability, service search: dateFilter
CheckAvailabilityDate ==
    /\ dtCall = <<>>
    /\ \E input \in DateInputs :
        dtCall' = <<DateOutcome("check-availability", input, 0,
                       IF input = <<>> THEN <<>>
                       ELSE parseDateRequest(input[1]), <<>>)>>
    /\ UNCHANGED <<envVars, dbVars, planVars, bookVars, availVars, fetchVars, cacheVars, dirVars, staffVars, moreVars>>

\* POST /check-availability with type package, POST
\* /check-package-availability: startDateFilter
PackageAvailabilityDate ==
    /\ dtCall = <<>>
    /\ \E input \in DateInputs,
          endpoint \in {"check-availability package",
                        "check-package-availability"} :
        dtCall' = <<DateOutcome(endpoint, input, 0, startDateFilter(input),
                                <<>>)>>
    /\ UNCHANGED <<envVars, dbVars, planVars, bookVars, availVars, fetchVars, cacheVars, dirVars, staffVars, moreVars>>

\* POST /book with type package: selected_date is required and must parse
BookPackageModeDate ==
    /\ dtCall = <<>>
    /\ \E input \in DateInputs :
        dtCall' = <<IF input = <<>> \/ parseRequestedDate(input[1]) = <<>>
                    THEN DateOutcome("book package mode", input, 400, <<>>,
                                     <<>>)
                    ELSE DateOutcome("book package mode", input, 0,
                                     startDateFilter(input),
                                     parseRequestedDate(input[1]))>>
    /\ UNCHANGED <<envVars, dbVars, planVars, bookVars, availVars, fetchVars, cacheVars, dirVars, staffVars, moreVars>>

\* POST /book-package: selected_date before requested_date
BookPackageDate ==
    /\ dtCall = <<>>
    /\ \E selected_date \in DateInputs, requested_date \in {<<>>, <<"friday">>} :
        dtCall' = <<IF selected_date # <<>>
                    THEN DateOutcome("book-package", selected_date, 0,
                                     startDateFilter(selected_date),
                                     parseRequestedDate(selected_date[1]))
                    ELSE DateOutcome("book-package", requested_date, 0,
                                     startDateFilter(requested_date), <<>>)>>
    /\ UNCHANGED <<envVars, dbVars, planVars, bookVars, availVars, fetchVars, cacheVars, dirVars, staffVars, moreVars>>

DateNext ==
    \/ CheckAvailabilityDate
    \/ PackageAvailabilityDate
    \/ BookPackageModeDate
    \/ BookPackageDate

\* the request arrives at 08:00 of the calendar's wall clock on any day of
\* a week
DateEnvChoices ==
    {[now |-> d * MinutesPerDay + 480, calOff |-> 0, srvOff |-> 0] : d \in 3..9}
        \cup {[now |-> d * MinutesPerDay + 1080, calOff |-> 0 - 600,
               srvOff |-> 0] : d \in 3..9}

DateInit ==
    /\ \E e \in DateEnvChoices :
        /\ realNow = e.now
        /\ calOff = e.calOff
        /\ srvOff = e.srvOff
    /\ DbInit /\ PlanIdle /\ BookIdle /\ AvailIdle /\ FetchIdle /\ CacheIdle
    /\ DirIdle /\ StaffIdle /\ DateIdle /\ MoreIdle

SpecDate == DateInit /\ [][DateNext]_vars

----------------------------------------------------------------------------
(* Claims about date phrases *)

\* today's date key on the calendar's wall clock
WallToday == (realNow + calOff) \div MinutesPerDay

\* the days from today to the nearest occurrence of a weekday after today
NearestUpcoming(weekday) ==
    CHOOSE n \in 1..7 : (WallToday + n + 4) % 7 = weekday

\* C15 as stated: on every endpoint, "next <weekday>" resolves to the one
\* date a week after the nearest occurrence of that weekday after today.
C15_AsStated ==
    \A w \in DOMAIN NextDayPhrases :
        (dtCall # <<>> /\ dtCall[1].input = <<NextDayPhrases[w]>>) =>
            dtCall[1].filter
                = <<OnDates({WallToday + NearestUpcoming(w - 1) + 7})>>

\* C16 as stated: on every endpoint, a date phrase that does not parse
\* leaves the request without date constraint and is not answered with an
\* error.
C16_AsStated ==
    (dtCall # <<>> /\ dtCall[1].input = <<"someday">>) =>
        /\ dtCall[1].http = 0
        /\ dtCall[1].filter = <<>>

----------------------------------------------------------------------------
(* Further claims about the planner *)

\* the calendars a service of a package can be placed on
CandidateCalendars(service) == OrDefault(SyncedFor(service))

\* C17: when some service of the package has no candidate calendar, the
\* planner ends at once: it returns no plan, sends no slot request and
\* examines no date.
C17_NoPlanWithoutCalendar ==
    (/\ plPc # "idle"
     /\ \E i \in DOMAIN plServices : CandidateCalendars(plServices[i]) = {}) =>
        /\ plPc = "done"
        /\ plResults = <<>>
        /\ plCalendarSlots = <<>>
        /\ plExamined = <<>>

\* a package of two services, the first with a calendar and the second
\* with none: no plan
C17_Witness ==
    /\ plPc = "done"
    /\ Len(plServices) = 2
    /\ CandidateCalendars(plServices[1]) # {}
    /\ CandidateCalendars(plServices[2]) = {}
    /\ plResults = <<>>

\* C18: the dates examined are the first of datesToCheck, in ascending
\* order; every plan returned is on a date examined and has exactly one
\* step per service of the package, in package order; the plans are on
\* strictly ascending dates and at most maxResults; the date of the plan
\* that reaches maxResults is the last date examined, and all 14 dates are
\* examined when fewer plans are found.
C18_AscendingScan ==
    (/\ plPc = "done"
     /\ \A i \in DOMAIN plServices : CandidateCalendars(plServices[i]) # {}) =>
        /\ \A i \in DOMAIN plExamined :
            /\ plExamined[i] = datesToCheck(plReqDate, i)
            /\ i > 1 => plExamined[i - 1] < plExamined[i]
        /\ Len(plResults) <= plMaxResults
        /\ \A r \in DOMAIN plResults :
            /\ plResults[r].date \in Range(plExamined)
            /\ r > 1 => plResults[r - 1].date < plResults[r].date
            /\ Len(plResults[r].slots) = Len(plServices)
            /\ \A k \in DOMAIN plServices :
                /\ plResults[r].slots[k].service = plServices[k]
                /\ SlotDateKey(plResults[r].slots[k].startTime)
                       = plResults[r].date
        /\ IF Len(plResults) = plMaxResults
           THEN plExamined[Len(plExamined)] = plResults[Len(plResults)].date
           ELSE Len(plExamined) = DAYS_TO_SEARCH

\* a search for one plan that passed over the first date, accepted the
\* second and examined no third
C18_Witness ==
    /\ plPc = "done"
    /\ Len(plServices) > 0
    /\ plMaxResults = 1
    /\ Len(plExamined) = 2
    /\ Len(plResults) = 1
    /\ plResults[1].date = plExamined[2]
    /\ Len(plResults[1].slots) = Len(plServices)

----------------------------------------------------------------------------
(* Further claims about the availability search *)

\* C19 as stated: a search with time preference morning and no other
\* filter, made at 08:00 of the calendar's wall clock over one calendar
\* that holds 14:00 today and 09:00 and 10:30 tomorrow, answers with both
\* 09:00 and 10:30 tomorrow and without 14:00 today.
C19_AsStated ==
    (/\ AvailAnswered
     /\ avPref = <<"morning">>
     /\ avTargetMins = <<>>
     /\ avDateFilter = <<>>
     /\ realNow + calOff = SlotAt(3, 8, 0)
     /\ Len(avCalendars) = 1
     /\ rmtHeld[avCalendars[1]]
            = {SlotAt(3, 14, 0), SlotAt(4, 9, 0), SlotAt(4, 10, 30)}) =>
        LET starts == {avResponse[1].slots[i].startTime :
                          i \in DOMAIN avResponse[1].slots}
        IN /\ SlotAt(4, 9, 0) \in starts
           /\ SlotAt(4, 10, 30) \in starts
           /\ SlotAt(3, 14, 0) \notin starts

----------------------------------------------------------------------------
(* Further claims about the package booking *)

\* the services a message names
MessageNames(message) == Range(message) \cap Services

\* C20 as stated: when step 1 of a plan of two steps was booked and step 2
\* failed, the answer is partial, its appointments are the confirmed entry
\* of step 1 and the failed entry of step 2 with a non-empty error, and
\* its message names the service of step 1 and no other service.
C20_AsStated ==
    (BookAnswered /\ Len(BookedPlan) = 2 /\ rmtAppointments = {1}) =>
        LET r == bkResponse[1]
        IN /\ r.partial
           /\ ~r.success
           /\ Len(r.appointments) = 2
           /\ r.appointments[1].status = "confirmed"
           /\ r.appointments[2].status = "failed"
           /\ r.appointments[2].error # ""
           /\ MessageNames(r.message) = {r.appointments[1].service}

----------------------------------------------------------------------------
(* Single booking: POST /book in service mode *)

\* noteParts.join(". "): the parts pushed, in order
appointmentNotes(service_name, therapist_preference, occasion, notes) ==
    service_name \o therapist_preference \o occasion \o notes

\* resolvedCalendarId, slotDuration and slotBuffer of the service booking
resolveBookingCalendar(calendarId, service_name) ==
    LET synced == IF calendarId = <<>> /\ service_name # <<>>
                  THEN getSyncedCalendarsForService(service_name[1])
                  ELSE <<>>
        viaService == Len(synced) > 0
        id == IF calendarId # <<>> THEN calendarId
              ELSE IF viaService THEN <<synced[1]>>
              ELSE defaultCalendar
        orElse(v, d) == IF v # 0 THEN v ELSE d
        duration1 == IF viaService
                     THEN orElse(syncedCalendars[synced[1]].slot_duration, 60)
                     ELSE 60
        buffer1 == IF viaService THEN syncedCalendars[synced[1]].slot_buffer
                   ELSE 0
        reload == /\ duration1 = 60
                  /\ id # <<>>
                  /\ id[1] \in DOMAIN syncedCalendars
    IN [calendarId |-> id,
        slotDuration |-> IF reload
                         THEN orElse(syncedCalendars[id[1]].slot_duration, 60)
                         ELSE duration1,
        slotBuffer |-> IF reload THEN syncedCalendars[id[1]].slot_buffer
                       ELSE buffer1]

SvcAnswer(http, success, error, appointmentId, endTime, buffer_end) ==
    [http |-> http, success |-> success, error |-> error,
     appointmentId |-> appointmentId, endTime |-> endTime,
     buffer_end |-> buffer_end]

SvcFailure(http, error) == SvcAnswer(http, FALSE, error, <<>>, <<>>, <<>>)

\* step 6: the success body
serviceBooked(appointmentId, startTime, resolved) ==
    LET endTimeMs == SlotEpoch(startTime) + resolved.slotDuration
    IN SvcAnswer(200, TRUE, "", appointmentId, <<endTimeMs>>,
                 <<endTimeMs + resolved.slotBuffer>>)

\* step 5 posts the note only with notes to write and an appointment id
shouldAttachNotes(notes, appointmentId) == notes # <<>> /\ appointmentId # <<>>

afterNotes_Rethrow(posted, booked) ==
    IF posted THEN booked ELSE SvcFailure(500, "Request failed with status code 500")

\* step 5's try/catch: the answer of the step whether the note was posted
\* or the post threw
afterNotes(posted, booked) == booked

ServiceRequests ==
    [customer : BOOLEAN,
     startTime : {<<>>, <<SlotAt(4, 9, 0)>>},
     calendarId : {<<>>, <<"calB">>},
     service_name : {<<>>, <<"s1">>, <<"s2">>},
     therapistPreference : {<<>>, <<"male">>},
     occasion : {<<>>, <<"birthday">>},
     notes : {<<>>, <<"window seat">>}]

SvcSend(call, resend) ==
    svCalls' = Append(svCalls, [call |-> call, resend |-> resend])

\* the handler up to the contact upsert: validation, calendar resolution,
\* GHL.requests, and the upsert posted
ServiceStart ==
    /\ svPc = "idle"
    /\ bkPc = "idle"
    /\ \E req \in ServiceRequests :
        LET resolved == resolveBookingCalendar(req.calendarId, req.service_name)
            refused ==
                IF ~req.customer
                THEN <<SvcFailure(400, "Missing required fields: locationId, customerName, customerEmail")>>
                ELSE IF req.startTime = <<>>
                THEN <<SvcFailure(400, "Missing required field: startTime (or selected_date + selected_time)")>>
                ELSE IF resolved.calendarId = <<>>
                THEN <<SvcFailure(400, "No calendar configured for this location")>>
                ELSE <<>>
        IN /\ svRequest' = <<req>>
           /\ svResolved' = <<resolved>>
           /\ svNotes' = appointmentNotes(req.service_name,
                             req.therapistPreference, req.occasion, req.notes)
           /\ IF refused # <<>>
              THEN /\ svPc' = "done"
                   /\ svResponse' = refused
                   /\ UNCHANGED svCalls
              ELSE /\ svPc' = "upsert"
                   /\ svResponse' = <<>>
                   /\ SvcSend("upsert", FALSE)
    /\ UNCHANGED <<svRetry, svContactId, svAppointmentId, svCreated, svNoted>>
    /\ UNCHANGED <<envVars, dbVars, planVars, bookVars, availVars, fetchVars, cacheVars, dirVars, staffVars, dateVars, timeVars, refVars, rfVars, syncVars, restVars>>

\* GHL.requests throws: the handler's catch answers 500
ServiceClientError ==
    /\ svPc = "idle"
    /\ bkPc = "idle"
    /\ svPc' = "done"
    /\ svResponse' = <<SvcFailure(500, "Installation not found")>>
    /\ UNCHANGED <<svRequest, svResolved, svNotes, svRetry, svContactId,
                   svAppointmentId, svCreated, svNoted, svCalls>>
    /\ UNCHANGED <<envVars, dbVars, planVars, bookVars, availVars, fetchVars, cacheVars, dirVars, staffVars, dateVars, timeVars, refVars, rfVars, syncVars, restVars>>

\* the upsert answers with a contact id: the create-appointment is posted
ServiceUpsertOk ==
    /\ svPc = "upsert"
    /\ svPc' = "create"
    /\ svContactId' = <<"contact">>
    /\ svRetry' = FALSE
    /\ SvcSend("create", FALSE)
    /\ UNCHANGED <<svRequest, svResolved, svNotes, svAppointmentId, svCreated,
                   svNoted, svResponse>>
    /\ UNCHANGED <<envVars, dbVars, planVars, bookVars, availVars, fetchVars, cacheVars, dirVars, staffVars, dateVars, timeVars, refVars, rfVars, syncVars, restVars>>

\* the upsert answers without a contact id: the inner catch answers 500
ServiceUpsertNoId ==
    /\ svPc = "upsert"
    /\ svPc' = "done"
    /\ svRetry' = FALSE
    /\ svResponse' = <<SvcFailure(500, "Failed to create/upsert contact: No contact ID returned from upsert")>>
    /\ UNCHANGED <<svRequest, svResolved, svNotes, svContactId,
                   svAppointmentId, svCreated, svNoted, svCalls>>
    /\ UNCHANGED <<envVars, dbVars, planVars, bookVars, availVars, fetchVars, cacheVars, dirVars, staffVars, dateVars, timeVars, refVars, rfVars, syncVars, restVars>>

\* the call in flight is rejected with 401 and was not resent yet: the
\* response interceptor refreshes the token and sends the request again
ServiceCallUnauthorizedResend ==
    /\ svPc \in {"upsert", "create", "notes"}
    /\ ~svRetry
    /\ svRetry' = TRUE
    /\ SvcSend(svPc, TRUE)
    /\ UNCHANGED <<svPc, svRequest, svResolved, svNotes, svContactId,
                   svAppointmentId, svCreated, svNoted, svResponse>>
    /\ UNCHANGED <<envVars, dbVars, planVars, bookVars, availVars, fetchVars, cacheVars, dirVars, staffVars, dateVars, timeVars, refVars, rfVars, syncVars, restVars>>

\* the upsert or the create-appointment is rejected for good: the inner
\* catch (upsert) or the handler's catch (create) answers 500
ServiceCallError ==
    /\ svPc \in {"upsert", "create"}
    /\ svPc' = "done"
    /\ svRetry' = FALSE
    /\ \E err \in UpstreamErrors :
        svResponse' = <<SvcFailure(500, err)>>
    /\ UNCHANGED <<svRequest, svResolved, svNotes, svContactId,
                   svAppointmentId, svCreated, svNoted, svCalls>>
    /\ UNCHANGED <<envVars, dbVars, planVars, bookVars, availVars, fetchVars, cacheVars, dirVars, staffVars, dateVars, timeVars, refVars, rfVars, syncVars, restVars>>

\* the remote calendar creates the appointment and answers, with or
\* without an id in the body; the note is posted or the handler answers
ServiceCreateOk ==
    /\ svPc = "create"
    /\ svCreated' = TRUE
    /\ svRetry' = FALSE
    /\ \E appointmentId \in {<<>>, <<"appt">>} :
        /\ svAppointmentId' = appointmentId
        /\ IF shouldAttachNotes(svNotes, appointmentId)
           THEN /\ svPc' = "notes"
                /\ SvcSend("notes", FALSE)
                /\ UNCHANGED svResponse
           ELSE /\ svPc' = "done"
                /\ svResponse' = <<serviceBooked(appointmentId,
                                      svRequest[1].startTime[1], svResolved[1])>>
                /\ UNCHANGED svCalls
    /\ UNCHANGED <<svRequest, svResolved, svNotes, svContactId, svNoted>>
    /\ UNCHANGED <<envVars, dbVars, planVars, bookVars, availVars, fetchVars, cacheVars, dirVars, staffVars, dateVars, timeVars, refVars, rfVars, syncVars, restVars>>

\* the note post answers, or throws and the catch logs it
ServiceNotesSettled ==
    /\ svPc = "notes"
    /\ svPc' = "done"
    /\ svRetry' = FALSE
    /\ \E posted \in BOOLEAN :
        /\ svNoted' = <<posted>>
        /\ svResponse' = <<afterNotes(posted,
                              serviceBooked(svAppointmentId,
                                  svRequest[1].startTime[1], svResolved[1]))>>
    /\ UNCHANGED <<svRequest, svResolved, svNotes, svContactId,
                   svAppointmentId, svCreated, svCalls>>
    /\ UNCHANGED <<envVars, dbVars, planVars, bookVars, availVars, fetchVars, cacheVars, dirVars, staffVars, dateVars, timeVars, refVars, rfVars, syncVars, restVars>>

ServiceNext ==
    \/ ServiceStart
    \/ ServiceClientError
    \/ ServiceUpsertOk
    \/ ServiceUpsertNoId
    \/ ServiceCallUnauthorizedResend
    \/ ServiceCallError
    \/ ServiceCreateOk
    \/ ServiceNotesSettled

\* one booking request is served: a package booking or a single booking
StepNext ==
    \/ svPc = "idle" /\ BookNext
    \/ ServiceNext

SpecStep == BookInit /\ [][StepNext]_vars

----------------------------------------------------------------------------
(* Claims about the booking step *)

CallsBefore(calls, i) == {calls[j].call : j \in 1..(i - 1)}

\* the create-appointment of package step k is sent only while the upsert
\* of that step is the call before it
PackageStepOrder ==
    \A i \in DOMAIN bkCalls :
        (bkCalls[i].call = "create" /\ ~bkCalls[i].resend)
            => /\ i > 1
               /\ bkCalls[i - 1].call = "upsert"
               /\ bkCalls[i - 1].step = bkCalls[i].step

\* C21: in every booking step the remote calls are sent in the order contact
\* upsert, create appointment, attach notes; the appointment is created only
\* after the upsert returned a contact id; the notes call is sent only after
\* the appointment was created; and a step whose appointment was created
\* and whose notes call failed is still answered as a success
C21_StepOrder ==
    /\ PackageStepOrder
    /\ \A i \in DOMAIN bkCalls : bkCalls[i].call \in {"upsert", "create"}
    /\ rmtAppointments # {} => "upsert" \in {bkCalls[i].call : i \in DOMAIN bkCalls}
    /\ \A i \in DOMAIN svCalls :
        /\ svCalls[i].call = "create" => "upsert" \in CallsBefore(svCalls, i)
        /\ svCalls[i].call = "notes" => "create" \in CallsBefore(svCalls, i)
        /\ svCalls[i].call = "upsert" => CallsBefore(svCalls, i) \subseteq {"upsert"}
        /\ svCalls[i].call = "create" => CallsBefore(svCalls, i) \subseteq {"upsert", "create"}
    /\ (\E i \in DOMAIN svCalls : svCalls[i].call = "create") => svContactId # <<>>
    /\ svCreated => svContactId # <<>>
    /\ (\E i \in DOMAIN svCalls : svCalls[i].call = "notes") => svCreated
    /\ (svPc = "done" /\ svNoted = <<FALSE>>)
        => /\ svCreated
           /\ svResponse[1].http = 200
           /\ svResponse[1].success

\* a single booking whose appointment was created and whose notes call
\* failed has been answered
C21_Witness ==
    /\ svPc = "done"
    /\ svCreated
    /\ svNoted = <<FALSE>>
    /\ Len(svCalls) >= 3

----------------------------------------------------------------------------
(* Termination of the availability search *)

\* The request arrives and the handler runs whenever it can.  The answers
\* of the remote calendar are not assumed: axios.get is called without a
\* timeout option and axios' default is none, so AvailFetched and
\* AvailFetchThrows, which need every calendar's call to have settled, may
\* never happen.
SpecAvailLive == AvailInit /\ [][AvailNext]_vars /\ WF_vars(AvailStart)

\* C22 as stated: every availability request whose slot fetches were sent
\* is eventually answered, even if a remote free-slots call never answers
C22_AsStated == (avPc = "fetch") ~> (avPc = "done")

----------------------------------------------------------------------------
(* Times of day: parseTimeToMinutes and its callers *)
(* A time text is the sequence of its characters. *)

DigitChars == <<"0", "1", "2", "3", "4", "5", "6", "7", "8", "9">>

isDigit(c) == \E i \in DOMAIN DigitChars : DigitChars[i] = c

DigitValue(c) == (CHOOSE i \in DOMAIN DigitChars : DigitChars[i] = c) - 1

\* parseInt(text, 10) of a text of digits
parseInt(text) ==
    LET RECURSIVE value(_)
        value(k) == IF k = 0 THEN 0
                    ELSE 10 * value(k - 1) + DigitValue(text[k])
    IN value(Len(text))

toLowerCase(c) ==
    CASE c = "A" -> "a"
      [] c = "P" -> "p"
      [] c = "M" -> "m"
      [] OTHER -> c

\* timeStr.toLowerCase().replace(/\s+/g, "")
normalizeTime(timeStr) ==
    SelectSeq([i \in DOMAIN timeStr |-> toLowerCase(timeStr[i])],
              LAMBDA c : c # " ")

allDigits(text) == \A i \in DOMAIN text : isDigit(text[i])

Meridiems == {<<"a", "m">>, <<"p", "m">>}

\* one way of reading n as hour, optional colon, optional minutes, optional
\* meridiem: <<>> if n does not read that way, else <<the groups>>
readAs(n, hourLen, colon, hasMin, hasMer) ==
    LET afterHour == hourLen + 1
        afterColon == afterHour + (IF colon THEN 1 ELSE 0)
        afterMin == afterColon + (IF hasMin THEN 2 ELSE 0)
        hourText == SubSeq(n, 1, hourLen)
        minText == SubSeq(n, afterColon, afterMin - 1)
        merText == SubSeq(n, afterMin, Len(n))
        fits == /\ Len(n) = afterMin - 1 + (IF hasMer THEN 2 ELSE 0)
                /\ allDigits(hourText)
                /\ colon => n[afterHour] = ":"
                /\ allDigits(minText)
                /\ hasMer => merText \in Meridiems
    IN IF fits
       THEN <<[hour |-> hourText, min |-> minText, meridiem |-> merText]>>
       ELSE <<>>

\* the readings in the order the regular expression tries them: each
\* quantifier takes as much as it can first
Readings(hourLens, colons) ==
    <<[hourLen |-> hourLens[1], colon |-> colons[1], hasMin |-> TRUE, hasMer |-> TRUE],
      [hourLen |-> hourLens[1], colon |-> colons[1], hasMin |-> TRUE, hasMer |-> FALSE],
      [hourLen |-> hourLens[1], colon |-> colons[1], hasMin |-> FALSE, hasMer |-> TRUE],
      [hourLen |-> hourLens[1], colon |-> colons[1], hasMin |-> FALSE, hasMer |-> FALSE]>>

firstReading(n, readings) ==
    LET tried == [i \in DOMAIN readings |->
                     readAs(n, readings[i].hourLen, readings[i].colon,
                            readings[i].hasMin, readings[i].hasMer)]
        found == SelectSeq(tried, LAMBDA r : r # <<>>)
    IN IF Len(found) = 0 THEN <<>> ELSE found[1]

\* normalized.match(/^(\d{1,2}):?(\d{2})?(am|pm)?$/)
match12(n) ==
    firstReading(n, Readings(<<2>>, <<TRUE>>) \o Readings(<<2>>, <<FALSE>>)
                    \o Readings(<<1>>, <<TRUE>>) \o Readings(<<1>>, <<FALSE>>))

\* normalized.match(/^(\d{1,2}):(\d{2})$/)
match24(n) ==
    firstReading(n, <<[hourLen |-> 2, colon |-> TRUE, hasMin |-> TRUE, hasMer |-> FALSE],
                      [hourLen |-> 1, colon |-> TRUE, hasMin |-> TRUE, hasMer |-> FALSE]>>)

\* the minute of the day, <<>> for null
parseTimeToMinutes(timeStr) ==
    LET normalized == normalizeTime(timeStr)
        m12 == match12(normalized)
        m24 == match24(normalized)
        h12 == parseInt(m12[1].hour)
        hour == IF m12[1].meridiem = <<"p", "m">> /\ h12 # 12 THEN h12 + 12
                ELSE IF m12[1].meridiem = <<"a", "m">> /\ h12 = 12 THEN 0
                ELSE h12
    IN IF m12 # <<>> THEN <<hour * 60 + parseInt(m12[1].min)>>
       ELSE IF m24 # <<>>
       THEN <<parseInt(m24[1].hour) * 60 + parseInt(m24[1].min)>>
       ELSE <<>>

HourTexts == {<<"2">>, <<"9">>, <<"0">>, <<"1", "2">>, <<"1", "4">>}
MinuteTexts == {<<>>, <<":", "0", "0">>, <<":", "3", "0">>, <<"3", "0">>}
MeridiemTexts == {<<>>, <<"a", "m">>, <<"p", "m">>, <<"P", "M">>}

\* "2", "2pm", "2:00 PM", "14:00", "1230", "12am", ..., "noon", ":30"
TimeTexts ==
    {h \o mn \o sp \o mer : h \in HourTexts, mn \in MinuteTexts,
                            sp \in {<<>>, <<" ">>}, mer \in MeridiemTexts}
    \cup {<<"n", "o", "o", "n">>, <<":", "3", "0">>, <<"1", "4", "0", "0", "0">>}

\* /check-availability: targetMins of requested_time
RequestedTime ==
    /\ tmCall = <<>>
    /\ \E requested_time \in TimeTexts \cup {<<>>} :
        tmCall' = <<[endpoint |-> "check-availability",
                     input |-> requested_time,
                     minutes |-> IF requested_time # <<>>
                                 THEN parseTimeToMinutes(requested_time)
                                 ELSE <<>>,
                     http |-> 0]>>
    /\ UNCHANGED <<svVars, refVars, rfVars, syncVars, restVars>>
    /\ UNCHANGED <<envVars, dbVars, planVars, bookVars, availVars, fetchVars, cacheVars, dirVars, staffVars, dateVars>>

\* /book in service mode with selected_date and selected_time: the start
\* time is built from the parsed time, or the request is refused
SelectedTime ==
    /\ tmCall = <<>>
    /\ \E selected_time \in TimeTexts :
        LET timeParsed == parseTimeToMinutes(selected_time)
        IN tmCall' = <<[endpoint |-> "book",
                        input |-> selected_time,
                        minutes |-> timeParsed,
                        http |-> IF timeParsed = <<>> THEN 400 ELSE 0]>>
    /\ UNCHANGED <<svVars, refVars, rfVars, syncVars, restVars>>
    /\ UNCHANGED <<envVars, dbVars, planVars, bookVars, availVars, fetchVars, cacheVars, dirVars, staffVars, dateVars>>

TimeNext == RequestedTime \/ SelectedTime

TimeInit == AvailInit

SpecTime == TimeInit /\ [][TimeNext]_vars

----------------------------------------------------------------------------
(* Claims about times of day *)

\* a bare hour below 13 with no minutes and no meridiem: "2", "9", "12"
BareHour(text) ==
    /\ text # <<>>
    /\ Len(text) <= 2
    /\ allDigits(text)
    /\ parseInt(text) < 13

\* C23 as stated: the parser returns null for a bare hour below 13 without
\* meridiem, and the minute of the day for 12-hour forms with meridiem and
\* for 24-hour forms
C23_AsStated ==
    tmCall # <<>> =>
        LET c == tmCall[1]
        IN /\ BareHour(c.input) => c.minutes = <<>>
           /\ c.input = <<"2", "p", "m">> => c.minutes = <<14 * 60>>
           /\ c.input = <<"2", ":", "0", "0", " ", "P", "M">> => c.minutes = <<14 * 60>>
           /\ c.input = <<"1", "4", ":", "0", "0">> => c.minutes = <<14 * 60>>

----------------------------------------------------------------------------
(* The schedule getCalendarSchedule builds from the reference week *)

\* new Date(dateKey + "T00:00:00").getDay(): day 0 is a Thursday
dateKeyDay(dateKey) == (dateKey + 4) % 7

DayInfo(slots) ==
    [earliest |-> slots[1], latest |-> slots[Len(slots)],
     slotCount |-> Len(slots)]

\* the loop with dayInfo.set done for every date with slots
buildSchedule_Overwrite(rawData) ==
    LET RECURSIVE loop(_, _, _)
        loop(k, openDays, dayInfo) ==
            IF k > Len(rawData) THEN [openDays |-> openDays, dayInfo |-> dayInfo]
            ELSE LET slots == rawData[k].slots
                     dayNum == dateKeyDay(rawData[k].date)
                 IN IF Len(slots) = 0 THEN loop(k + 1, openDays, dayInfo)
                    ELSE loop(k + 1, openDays \cup {dayNum},
                              [d \in DOMAIN dayInfo \cup {dayNum} |->
                                  IF d = dayNum THEN DayInfo(slots)
                                  ELSE dayInfo[d]])
    IN loop(1, {}, <<>>)

\* for (const dateKey of dateKeys): dates without slots are skipped, the
\* weekday is added to openDays, and dayInfo is set unless it has the weekday
buildSchedule(rawData) ==
    LET RECURSIVE loop(_, _, _)
        loop(k, openDays, dayInfo) ==
            IF k > Len(rawData) THEN [openDays |-> openDays, dayInfo |-> dayInfo]
            ELSE LET slots == rawData[k].slots
                     dayNum == dateKeyDay(rawData[k].date)
                 IN IF Len(slots) = 0 THEN loop(k + 1, openDays, dayInfo)
                    ELSE loop(k + 1, openDays \cup {dayNum},
                              IF dayNum \in DOMAIN dayInfo THEN dayInfo
                              ELSE [d \in DOMAIN dayInfo \cup {dayNum} |->
                                       IF d = dayNum THEN DayInfo(slots)
                                       ELSE dayInfo[d]])
    IN loop(1, {}, <<>>)

DateSlots(date, times) ==
    [date |-> date, slots |-> [i \in DOMAIN times |-> date * MinutesPerDay + times[i]]]

\* what the remote calendar may answer for the reference week, in the order
\* of the keys of the body; days 11 and 18 are Mondays, day 12 a Tuesday
ReferenceWeeks ==
    {<<>>,
     <<DateSlots(11, <<>>)>>,
     <<DateSlots(11, <<540, 600, 1020>>)>>,
     <<DateSlots(11, <<540, 1020>>), DateSlots(12, <<600>>)>>,
     <<DateSlots(11, <<540, 1020>>), DateSlots(18, <<600, 720>>)>>,
     <<DateSlots(18, <<600, 720>>), DateSlots(11, <<540, 1020>>)>>,
     <<DateSlots(11, <<>>), DateSlots(18, <<600, 720>>)>>,
     <<DateSlots(12, <<1020, 540>>), DateSlots(11, <<>>)>>,
     <<DateSlots(11, <<540>>), DateSlots(12, <<600, 660>>), DateSlots(18, <<720, 780>>)>>}

RefCall(c, outcome) == <<[calendar |-> c, outcome |-> outcome]>>

\* getCalendarSchedule(client, c, tz): a fresh entry is returned; else the
\* reference week is fetched, the schedule built from it and stored
ScheduleCall(c) ==
    IF isFresh(scheduleCache[c], scNow)
    THEN /\ rwCall' = RefCall(c, "hit")
         /\ UNCHANGED <<scheduleCache, rwSource>>
    ELSE \E rawData \in ReferenceWeeks :
            LET schedule == buildSchedule(rawData)
            IN /\ scheduleCache' = [scheduleCache EXCEPT ![c] =
                      <<[openDays |-> schedule.openDays,
                         dayInfo |-> schedule.dayInfo,
                         fetchedAt |-> scNow]>>]
               /\ rwSource' = [rwSource EXCEPT ![c] = <<rawData>>]
               /\ rwCall' = RefCall(c, "fetched")

\* the reference-week request fails: nothing is stored
ScheduleCallThrows(c) ==
    /\ ~isFresh(scheduleCache[c], scNow)
    /\ rwCall' = RefCall(c, "threw")
    /\ UNCHANGED <<scheduleCache, rwSource>>

ScheduleNext ==
    \/ \E c \in Calendars :
        /\ ScheduleCall(c) \/ ScheduleCallThrows(c)
        /\ UNCHANGED <<scNow, scCall, scLast, svVars, timeVars, rfVars, syncVars, restVars>>
        /\ UNCHANGED <<envVars, dbVars, planVars, bookVars, availVars, fetchVars, dirVars, staffVars, dateVars>>
    \/ CacheTick

SpecSchedule == CacheInit /\ [][ScheduleNext]_vars

----------------------------------------------------------------------------
(* Claims about the stored schedule *)

\* the first entry of the response with slots on weekday d
FirstWithSlots(rawData, d) ==
    rawData[CHOOSE i \in DOMAIN rawData :
               /\ Len(rawData[i].slots) > 0
               /\ dateKeyDay(rawData[i].date) = d
               /\ \A j \in 1..(i - 1) :
                     Len(rawData[j].slots) = 0 \/ dateKeyDay(rawData[j].date) # d]

\* C24: after a successful reference-week fetch in which some date has a
\* slot, the stored schedule's open-weekday set is not empty and each of its
\* weekdays has an earliest/latest pair, that of the first date of the
\* weekday with slots in the response; a later date of the weekday does not
\* replace it
C24_StoredSchedule ==
    \A c \in Calendars :
        rwSource[c] # <<>> =>
            LET rawData == rwSource[c][1]
                stored == scheduleCache[c][1]
            IN (\E i \in DOMAIN rawData : Len(rawData[i].slots) > 0) =>
                  /\ stored.openDays # {}
                  /\ \A d \in stored.openDays :
                        /\ d \in DOMAIN stored.dayInfo
                        /\ stored.dayInfo[d].earliest = FirstWithSlots(rawData, d).slots[1]
                        /\ stored.dayInfo[d].latest =
                               FirstWithSlots(rawData, d).slots[Len(FirstWithSlots(rawData, d).slots)]

\* a schedule is stored from a response with two dates of one weekday,
\* both with slots
C24_Witness ==
    \E c \in Calendars :
        /\ rwSource[c] # <<>>
        /\ \E i, j \in DOMAIN rwSource[c][1] :
              /\ i < j
              /\ dateKeyDay(rwSource[c][1][i].date) = dateKeyDay(rwSource[c][1][j].date)
              /\ Len(rwSource[c][1][i].slots) > 0
              /\ Len(rwSource[c][1][j].slots) > 0
        /\ scheduleCache[c][1].openDays # {}

----------------------------------------------------------------------------
(* Claims about the day-fit scan *)

\* the cursor the scan holds when it comes to step i of a plan of a date
CursorAt(date, slots, i) ==
    IF i = 1 THEN Max2(LocalNowMs + BUFFER_MS, ServerMidnight(date))
    ELSE slots[i - 1].endTime + getCalendarTiming(slots[i - 1].calendar_id).buffer

\* a slot that starts at or after the cursor and matches the preference
Eligible(slot, cursor) ==
    /\ SlotEpoch(slot) >= cursor
    /\ matchesTimePreference(plPref, slot)

IndexOf(seq, x) == CHOOSE k \in DOMAIN seq : seq[k] = x

\* the scenario: two services of 60 minutes with a 15-minute buffer, the
\* first calendar offering 10:00, the second 10:30 and 11:15, on day 3
ElevenFifteenScenario ==
    /\ plPc = "done"
    /\ plServices = <<"s1", "s2">>
    /\ plPref \in {"any", "morning"}
    /\ plServiceCalendars["s1"] = <<"calA">>
    /\ plServiceCalendars["s2"] = <<"calB">>
    /\ getCalendarTiming("calA") = [duration |-> 60, buffer |-> 15]
    /\ dateSlotsOf(plCalendarSlots, "calA", 3) = <<SlotAt(3, 10, 0)>>
    /\ dateSlotsOf(plCalendarSlots, "calB", 3) = <<SlotAt(3, 10, 30), SlotAt(3, 11, 15)>>

\* C25: every step of a returned plan is the first slot, in the first
\* calendar of its service that has one, that starts at or after the cursor
\* and matches the time preference, the cursor after a placed step being its
\* end plus its calendar's buffer; and with A at 10:00 and B offering 10:30
\* and 11:15 the plan places B at 11:15
C25_FirstEligibleSlot ==
    /\ \A p \in PlanSteps :
        LET date == plResults[p[1]].date
            slots == plResults[p[1]].slots
            step == slots[p[2]]
            cursor == CursorAt(date, slots, p[2])
            cals == plServiceCalendars[step.service]
            mine == dateSlotsOf(plCalendarSlots, step.calendar_id, date)
        IN /\ step.service = plServices[p[2]]
           /\ step.calendar_id \in Range(cals)
           /\ step.startTime \in Range(mine)
           /\ Eligible(step.startTime, cursor)
           /\ \A k \in DOMAIN mine :
                 Eligible(mine[k], cursor) => \E j \in 1..k : mine[j] = step.startTime
           /\ \A c \in 1..(IndexOf(cals, step.calendar_id) - 1) :
                 \A slot \in Range(dateSlotsOf(plCalendarSlots, cals[c], date)) :
                     ~Eligible(slot, cursor)
    /\ ElevenFifteenScenario =>
           /\ Len(plResults) > 0
           /\ plResults[1].date = 3
           /\ plResults[1].slots[1].startTime = SlotAt(3, 10, 0)
           /\ plResults[1].slots[2].startTime = SlotAt(3, 11, 15)

\* the scenario was planned
C25_Witness ==
    /\ ElevenFifteenScenario
    /\ Len(plResults) > 0

\* the step the scan places for service i of the package on a date when it
\* holds the cursor: <<>> when no calendar of the service has an eligible
\* slot
FirstEligible(date, i, cursor) ==
    LET cals == plServiceCalendars[plServices[i]]
        has == {c \in DOMAIN cals :
                   \E slot \in Range(dateSlotsOf(plCalendarSlots, cals[c], date)) :
                       Eligible(slot, cursor)}
    IN IF has = {} THEN <<>>
       ELSE LET c == CHOOSE x \in has : \A y \in has : x <= y
                dateSlots == dateSlotsOf(plCalendarSlots, cals[c], date)
                k == CHOOSE x \in DOMAIN dateSlots :
                        /\ Eligible(dateSlots[x], cursor)
                        /\ \A y \in 1..(x - 1) : ~Eligible(dateSlots[y], cursor)
            IN <<[slot |-> dateSlots[k], calendar_id |-> cals[c]]>>

\* placing each service at its first eligible slot leaves some service of
\* the package without a slot on the date
RECURSIVE GreedyStuck(_, _, _)
GreedyStuck(date, i, cursor) ==
    IF i > Len(plServices) THEN FALSE
    ELSE LET first == FirstEligible(date, i, cursor)
         IN IF first = <<>> THEN TRUE
            ELSE LET timing == getCalendarTiming(first[1].calendar_id)
                 IN GreedyStuck(date, i + 1,
                        SlotEpoch(first[1].slot) + timing.duration + timing.buffer)

\* some choice of eligible slots, not the first ones, fits every service of
\* the package on the date
RECURSIVE SomeFit(_, _, _)
SomeFit(date, i, cursor) ==
    IF i > Len(plServices) THEN TRUE
    ELSE \E c \in Range(plServiceCalendars[plServices[i]]) :
            \E slot \in Range(dateSlotsOf(plCalendarSlots, c, date)) :
                /\ Eligible(slot, cursor)
                /\ SomeFit(date, i + 1,
                       SlotEpoch(slot) + getCalendarTiming(c).duration
                           + getCalendarTiming(c).buffer)

StartCursor(date) == Max2(LocalNowMs + BUFFER_MS, ServerMidnight(date))

ResultDates == {plResults[r].date : r \in DOMAIN plResults}

\* C26: a date on which, every service placed at its first eligible slot,
\* a later service finds no eligible slot on any of its calendars is
\* rejected, whatever other slot or calendar an earlier service could have
\* taken
C26_NoBacktracking ==
    \A d \in Range(plExamined) :
        GreedyStuck(d, 1, StartCursor(d)) => d \notin ResultDates

\* a date was rejected on which another choice for an earlier service
\* would have fitted the whole package
C26_Witness ==
    /\ plPc = "done"
    /\ \E d \in Range(plExamined) :
        /\ GreedyStuck(d, 1, StartCursor(d))
        /\ SomeFit(d, 1, StartCursor(d))
        /\ d \notin ResultDates

----------------------------------------------------------------------------
(* Claims about the search with a requested time *)

\* the slots of the last window fetched that pass the date filter and the
\* time-of-day filter, as result slots
PassingSlots ==
    {resultSlot(p[1], avAvailability[p[1]][p[2]]) :
        p \in {q \in AvailEntries :
                  timeFilterFn(avPref, avAvailability[q[1]][q[2]].slot)}}

TimeDistance(r) == Abs(getSlotMinutes(r.startTime) - avTargetMins[1])

\* C27: with a requested time that parses, the search returns the slots
\* passing the date and time-of-day filters that are nearest in time of day
\* to the requested time, at most 5 and as many as there are up to 5, in
\* non-decreasing order of their distance, several of one day among them
C27_NearestToRequestedTime ==
    (AvailAnswered /\ avTargetMins # <<>>) =>
        LET slots == avResponse[1].slots
            chosen == Range(slots)
        IN /\ chosen \subseteq PassingSlots
           /\ Cardinality(chosen) = Len(slots)
           /\ Len(slots) = IF Cardinality(PassingSlots) < MaxSlotsWithTime
                           THEN Cardinality(PassingSlots)
                           ELSE MaxSlotsWithTime
           /\ \A i \in 1..(Len(slots) - 1) :
                 TimeDistance(slots[i]) <= TimeDistance(slots[i + 1])
           /\ \A r \in PassingSlots \ chosen : \A s \in chosen :
                 TimeDistance(s) <= TimeDistance(r)

\* a search with a requested time answered five slots, two of them on one
\* day, while more than five passed the filters
C27_Witness ==
    /\ AvailAnswered
    /\ avTargetMins # <<>>
    /\ Len(avResponse[1].slots) = MaxSlotsWithTime
    /\ Cardinality(PassingSlots) > MaxSlotsWithTime
    /\ \E i, j \in DOMAIN avResponse[1].slots :
          i # j /\ avResponse[1].slots[i].date = avResponse[1].slots[j].date

----------------------------------------------------------------------------
(* Claims about start_after *)

\* C28 as stated: when start_after is a valid timestamp no slot the search
\* answers with starts before the later of now + 15 minutes and start_after,
\* and with an invalid start_after none starts before now + 15 minutes
C28_AsStated ==
    (AvailAnswered /\ avStartAfter # <<>>) =>
        \A i \in DOMAIN avResponse[1].slots :
            LET slotMs == SlotEpoch(avResponse[1].slots[i].startTime)
            IN IF avStartAfter[1].valid
               THEN slotMs >= Max2(realNow + BUFFER_MS, SlotEpoch(avStartAfter[1].at))
               ELSE slotMs >= realNow + BUFFER_MS

----------------------------------------------------------------------------
(* Token refresh: GHL.refreshAccessToken and _doRefresh *)

Resources == {"locA", "locB"}
RefreshCallers == {"k1", "k2", "k3"}

\* refreshPromises.get(resourceId) read as if the map never held a promise
existingRefresh_None(promises, resourceId) == <<>>

\* refreshPromises.get(resourceId): <<>> or <<the caller whose _doRefresh
\* made the promise>>
existingRefresh(promises, resourceId) == promises[resourceId]

Settled(k) == rfPromise[k] \in {"fulfilled", "rejected"}

\* refreshAccessToken(resourceId) up to its first await: a promise in the
\* map is returned; else _doRefresh is started and its promise stored
RefreshCall(k, resourceId) ==
    /\ rfCaller[k].pc = "idle"
    /\ LET existing == existingRefresh(refreshPromises, resourceId)
       IN IF existing # <<>>
          THEN /\ rfCaller' = [rfCaller EXCEPT ![k] =
                      [pc |-> "joined", resource |-> resourceId,
                       awaits |-> existing, outcome |-> "none"]]
               /\ UNCHANGED <<refreshPromises, rfPromise>>
          ELSE /\ rfCaller' = [rfCaller EXCEPT ![k] =
                      [pc |-> "owner", resource |-> resourceId,
                       awaits |-> <<k>>, outcome |-> "none"]]
               /\ refreshPromises' = [refreshPromises EXCEPT ![resourceId] = <<k>>]
               /\ rfPromise' = [rfPromise EXCEPT ![k] = "reading"]
    /\ UNCHANGED <<tokenCalls, tokenCallsMade>>

\* _doRefresh has the refresh token and posts to the token endpoint
DoRefreshPosts(k) ==
    /\ rfPromise[k] = "reading"
    /\ rfPromise' = [rfPromise EXCEPT ![k] = "posted"]
    /\ tokenCalls' = [tokenCalls EXCEPT ![rfCaller[k].resource] = @ + 1]
    /\ tokenCallsMade' = [tokenCallsMade EXCEPT ![rfCaller[k].resource] = @ + 1]
    /\ UNCHANGED <<rfCaller, refreshPromises>>

\* getRefreshToken returns nothing: _doRefresh throws before any post
DoRefreshNoToken(k) ==
    /\ rfPromise[k] = "reading"
    /\ rfPromise' = [rfPromise EXCEPT ![k] = "rejected"]
    /\ UNCHANGED <<rfCaller, refreshPromises, tokenCalls, tokenCallsMade>>

\* the token endpoint answers and the tokens are stored, or the post or the
\* update fails and _doRefresh rethrows
DoRefreshSettles(k) ==
    /\ rfPromise[k] = "posted"
    /\ \E outcome \in {"fulfilled", "rejected"} :
        rfPromise' = [rfPromise EXCEPT ![k] = outcome]
    /\ tokenCalls' = [tokenCalls EXCEPT ![rfCaller[k].resource] = @ - 1]
    /\ UNCHANGED <<rfCaller, refreshPromises, tokenCallsMade>>

\* the caller that started the refresh resumes after await promise: the
\* finally deletes the map entry, then the call returns or rethrows
OwnerResumes(k) ==
    /\ rfCaller[k].pc = "owner"
    /\ Settled(k)
    /\ rfCaller' = [rfCaller EXCEPT ![k] =
            [rfCaller[k] EXCEPT !.pc = "done", !.outcome = rfPromise[k]]]
    /\ refreshPromises' = [refreshPromises EXCEPT ![rfCaller[k].resource] = <<>>]
    /\ UNCHANGED <<rfPromise, tokenCalls, tokenCallsMade>>

\* a caller that was handed the promise in the map resumes when it settles,
\* after the caller that started it
JoinedResumes(k) ==
    /\ rfCaller[k].pc = "joined"
    /\ Settled(rfCaller[k].awaits[1])
    /\ rfCaller[rfCaller[k].awaits[1]].pc = "done"
    /\ rfCaller' = [rfCaller EXCEPT ![k] =
            [rfCaller[k] EXCEPT !.pc = "done",
                                !.outcome = rfPromise[rfCaller[k].awaits[1]]]]
    /\ UNCHANGED <<refreshPromises, rfPromise, tokenCalls, tokenCallsMade>>

RefreshNext ==
    /\ \E k \in RefreshCallers :
        \/ \E resourceId \in Resources : RefreshCall(k, resourceId)
        \/ DoRefreshPosts(k)
        \/ DoRefreshNoToken(k)
        \/ DoRefreshSettles(k)
        \/ OwnerResumes(k)
        \/ JoinedResumes(k)
    /\ UNCHANGED <<svVars, timeVars, refVars, syncVars, restVars>>
    /\ UNCHANGED <<envVars, dbVars, planVars, bookVars, availVars, fetchVars, cacheVars, dirVars, staffVars, dateVars>>

SpecRefresh == AvailInit /\ [][RefreshNext]_vars

----------------------------------------------------------------------------
(* Claims about the token refresh *)

\* C29: for each resource at most one refresh call to the token endpoint is
\* in flight; a caller arriving while a refresh of its resource is under
\* way starts none and ends with the outcome of that refresh; and once the
\* refresh has settled and its caller resumed the map holds no entry for
\* the resource, so that the next call starts a new refresh
C29_RefreshDeduplicated ==
    /\ \A r \in Resources :
        /\ tokenCalls[r] <= 1
        /\ Cardinality({k \in RefreshCallers :
               rfCaller[k].resource = r /\ rfPromise[k] \in {"reading", "posted"}}) <= 1
        /\ refreshPromises[r] # <<>> =>
               /\ rfCaller[refreshPromises[r][1]].pc = "owner"
               /\ rfCaller[refreshPromises[r][1]].resource = r
        /\ refreshPromises[r] = <<>> =>
               \A k \in RefreshCallers :
                   rfCaller[k].resource = r => rfPromise[k] \notin {"reading", "posted"}
    /\ \A k \in RefreshCallers :
        /\ rfCaller[k].pc = "joined" =>
               /\ rfPromise[k] = "none"
               /\ rfCaller[rfCaller[k].awaits[1]].resource = rfCaller[k].resource
        /\ rfCaller[k].pc = "done" =>
               /\ Settled(rfCaller[k].awaits[1])
               /\ rfCaller[k].outcome = rfPromise[rfCaller[k].awaits[1]]

\* two callers shared one refresh of a resource, which made one call to the
\* token endpoint, and after it settled a third caller started a second one
C29_Witness ==
    \E r \in Resources :
        /\ tokenCallsMade[r] = 2
        /\ \E k1, k2, k3 \in RefreshCallers :
              /\ k1 # k2 /\ k3 \notin {k1, k2}
              /\ rfCaller[k1].resource = r /\ rfCaller[k2].resource = r
              /\ rfCaller[k3].resource = r
              /\ rfCaller[k1].pc = "done" /\ rfCaller[k2].pc = "done"
              /\ rfCaller[k2].awaits = <<k1>>
              /\ rfCaller[k2].outcome = rfCaller[k1].outcome
              /\ rfCaller[k3].awaits = <<k3>>
              /\ rfPromise[k3] = "posted"

----------------------------------------------------------------------------
(* Calendar sync: syncLocation and its three callers *)

\* the poller (syncAllLocations), POST /sync, and the auto-sync after an
\* installation
Syncers == {"poller", "manual", "install"}
Locations == {"locA", "locB"}

SyncerAt(p, pc) == syCaller[p].pc = pc

\* updateSyncStatus(locationId, { sync_in_progress }): the upsert is applied,
\* or the store answers with an error, which is logged and nothing else
updateSyncStatus(locationId, inProgress, applied) ==
    IF applied THEN [syncInProgress EXCEPT ![locationId] = inProgress]
    ELSE syncInProgress

SyncGoes(p, pc) == syCaller' = [syCaller EXCEPT ![p] = [syCaller[p] EXCEPT !.pc = pc]]

SyncEnds(p, error, applied) ==
    syCaller' = [syCaller EXCEPT ![p] =
                    [syCaller[p] EXCEPT !.pc = "done", !.error = error,
                                        !.reset = applied]]

\* syncLocation(locationId) is called and getSyncStatus answers: a sync in
\* progress ends the call
SyncRead(p) ==
    /\ SyncerAt(p, "idle")
    /\ \E locationId \in Locations :
        syCaller' = [syCaller EXCEPT ![p] =
            IF syncInProgress[locationId]
            THEN [pc |-> "done", location |-> locationId,
                  error |-> "Sync already in progress",
                  marked |-> FALSE, reset |-> FALSE]
            ELSE [pc |-> "checked", location |-> locationId, error |-> "",
                  marked |-> FALSE, reset |-> FALSE]]
    /\ UNCHANGED <<syncInProgress, syncedBy, syLog>>

\* updateSyncStatus(locationId, { sync_in_progress: true })
SyncMark(p) ==
    /\ SyncerAt(p, "checked")
    /\ \E applied \in BOOLEAN :
        /\ syncInProgress' = updateSyncStatus(syCaller[p].location, TRUE, applied)
        /\ syCaller' = [syCaller EXCEPT ![p] =
                [syCaller[p] EXCEPT !.pc = "marked", !.marked = applied]]
    /\ UNCHANGED <<syncedBy, syLog>>

\* the installation is read and the calendars and users are fetched
SyncFetched(p) ==
    /\ SyncerAt(p, "marked")
    /\ SyncGoes(p, "fetched")
    /\ UNCHANGED <<syncInProgress, syncedBy, syLog>>

\* no installation, or a fetch or a store throws: the flag is cleared and
\* the error returned
SyncFails(p) ==
    /\ syCaller[p].pc \in {"marked", "fetched", "cleared"}
    /\ \E applied \in BOOLEAN,
          error \in {"Installation not found", "Request failed with status code 500"} :
        /\ syncInProgress' = updateSyncStatus(syCaller[p].location, FALSE, applied)
        /\ SyncEnds(p, error, applied)
    /\ UNCHANGED <<syncedBy, syLog>>

\* clearSyncedData(locationId)
SyncClear(p) ==
    /\ SyncerAt(p, "fetched")
    /\ syncedBy' = [syncedBy EXCEPT ![syCaller[p].location] = <<>>]
    /\ syLog' = [syLog EXCEPT ![syCaller[p].location] =
                    Append(@, [by |-> p, op |-> "clear"])]
    /\ SyncGoes(p, "cleared")
    /\ UNCHANGED syncInProgress

\* upsertSyncedCalendars(locationId, ...): the rows are written and the
\* status updated with sync_in_progress false
SyncUpsert(p) ==
    /\ SyncerAt(p, "cleared")
    /\ syncedBy' = [syncedBy EXCEPT ![syCaller[p].location] = <<p>>]
    /\ syLog' = [syLog EXCEPT ![syCaller[p].location] =
                    Append(@, [by |-> p, op |-> "upsert"])]
    /\ \E applied \in BOOLEAN :
        /\ syncInProgress' = updateSyncStatus(syCaller[p].location, FALSE, applied)
        /\ SyncEnds(p, "", applied)

SyncNext ==
    /\ \E p \in Syncers :
        \/ SyncRead(p)
        \/ SyncMark(p)
        \/ SyncFetched(p)
        \/ SyncFails(p)
        \/ SyncClear(p)
        \/ SyncUpsert(p)
    /\ UNCHANGED <<svVars, timeVars, refVars, rfVars, restVars>>
    /\ UNCHANGED <<envVars, dbVars, planVars, bookVars, availVars, fetchVars, cacheVars, dirVars, staffVars, dateVars>>

SpecSync == AvailInit /\ [][SyncNext]_vars

----------------------------------------------------------------------------
(* Claims about the calendar sync *)

\* the executions of syncLocation that marked the location in progress and
\* have not returned
Running(locationId) ==
    {p \in Syncers : /\ syCaller[p].location = locationId
                     /\ syCaller[p].pc \in {"marked", "fetched", "cleared"}}

\* C30 as stated: for every location at most one execution of syncLocation
\* runs the sync at a time, and the synced data of a location
\* is never cleared by one execution between the clear and the rewrite of
\* another
C30_AsStated ==
    \A l \in Locations :
        /\ Cardinality(Running(l)) <= 1
        /\ \A i \in 1..(Len(syLog[l]) - 1) :
              syLog[l][i].op = "clear" =>
                  /\ syLog[l][i + 1].op = "upsert"
                  /\ syLog[l][i + 1].by = syLog[l][i].by

\* C31 as stated: an execution of syncLocation that set sync_in_progress to
\* true and has returned, with success or with an error, has set it back to
\* false; an execution that was skipped because a sync was in progress has
\* written nothing to the flag.
C31_AsStated ==
    \A p \in Syncers :
        syCaller[p].pc = "done" =>
            /\ syCaller[p].marked => syCaller[p].reset
            /\ syCaller[p].error = "Sync already in progress" =>
                  ~syCaller[p].marked /\ ~syCaller[p].reset

----------------------------------------------------------------------------
(* syncLocation on the synced tables of one location, with a request that
   resolves its calendars meanwhile *)

\* what GET /calendars/?locationId= may answer with: the calendars of a
\* directory and their team members
CalendarAnswers == {[cals |-> d.cals, members |-> d.members] : d \in DirChoices}

\* getExistingGenders(locationId): the team member rows that carry a gender
getExistingGenders == SelectSeq(teamMembers, LAMBDA m : m.gender # <<>>)

\* upsertSyncedCalendars: for each calendar its row, then one row per team
\* member of the calendar
upsertWrites(remote) ==
    LET cals == SelectSeq(CalOrder, LAMBDA c : c \in DOMAIN remote.cals)
    IN Concat([k \in 1..Len(cals) |->
           LET members == SelectSeq(remote.members,
                              LAMBDA m : m.calendar_id = cals[k])
           IN <<[kind |-> "calendar", calendar_id |-> cals[k],
                 row |-> remote.cals[cals[k]]]>>
              \o [j \in 1..Len(members) |->
                     [kind |-> "member", calendar_id |-> cals[k],
                      row |-> members[j]]]], 1)

\* upsert(calendarRow, { onConflict: "location_id,calendar_id" })
upsertCalendarRow(rows, calendarId, row) ==
    [c \in (DOMAIN rows) \cup {calendarId} |->
        IF c = calendarId THEN row ELSE rows[c]]

sameMember(a, b) == a.calendar_id = b.calendar_id /\ a.user_id = b.user_id

\* upsert(memberRow, { onConflict: "location_id,calendar_id,user_id" }): the
\* row carries no gender, so a row that exists keeps its own and a new row
\* has none
upsertMemberRow(rows, m) ==
    IF \E i \in DOMAIN rows : sameMember(rows[i], m)
    THEN [i \in DOMAIN rows |->
             IF sameMember(rows[i], m)
             THEN [rows[i] EXCEPT !.user_name = m.user_name,
                                  !.is_primary = m.is_primary]
             ELSE rows[i]]
    ELSE Append(rows, [m EXCEPT !.gender = <<>>])

\* syncLocation is called and the calendars and users are fetched
ResyncFetched ==
    /\ rsPc = "idle"
    /\ \E remote \in CalendarAnswers : rsRemote' = <<remote>>
    /\ rsBefore' = <<[cals |-> syncedCalendars, members |-> teamMembers]>>
    /\ rsPc' = "fetched"
    /\ UNCHANGED <<rsGenders, rsWrites, rdSeen, dbVars, dirVars>>

\* the fetch of the calendars throws: the catch returns the error
ResyncThrows ==
    /\ rsPc = "idle"
    /\ rsBefore' = <<[cals |-> syncedCalendars, members |-> teamMembers]>>
    /\ rsPc' = "failed"
    /\ UNCHANGED <<rsRemote, rsGenders, rsWrites, rdSeen, dbVars, dirVars>>

\* const existingGenders = await getExistingGenders(locationId)
ResyncReadGenders ==
    /\ rsPc = "fetched"
    /\ rsGenders' = <<getExistingGenders>>
    /\ rsPc' = "read"
    /\ UNCHANGED <<rsRemote, rsWrites, rsBefore, rdSeen, dbVars, dirVars>>

\* clearSyncedData, first delete: the team member rows; its outcome is not
\* looked at
ResyncClearMembers ==
    /\ rsPc = "read"
    /\ \E applied \in BOOLEAN :
        teamMembers' = IF applied THEN <<>> ELSE teamMembers
    /\ rsPc' = "membersCleared"
    /\ UNCHANGED <<rsRemote, rsGenders, rsWrites, rsBefore, rdSeen, dbVars,
                   serviceMappings>>

\* clearSyncedData, second delete: the calendar rows; upsertSyncedCalendars
\* is called with the calendars fetched
ResyncClearCalendars ==
    /\ rsPc = "membersCleared"
    /\ \E applied \in BOOLEAN :
        syncedCalendars' = IF applied THEN <<>> ELSE syncedCalendars
    /\ rsWrites' = upsertWrites(rsRemote[1])
    /\ rsPc' = "upsert"
    /\ UNCHANGED <<rsRemote, rsGenders, rsBefore, rdSeen, defaultCalendar,
                   dirVars>>

\* one upsert of upsertSyncedCalendars: applied, or answered with an error
\* that is logged
ResyncUpsertRow ==
    /\ rsPc = "upsert"
    /\ rsWrites # <<>>
    /\ \E applied \in BOOLEAN :
        LET w == Head(rsWrites)
        IN /\ syncedCalendars' =
                  IF applied /\ w.kind = "calendar"
                  THEN upsertCalendarRow(syncedCalendars, w.calendar_id, w.row)
                  ELSE syncedCalendars
           /\ teamMembers' =
                  IF applied /\ w.kind = "member"
                  THEN upsertMemberRow(teamMembers, w.row)
                  ELSE teamMembers
    /\ rsWrites' = Tail(rsWrites)
    /\ UNCHANGED <<rsPc, rsRemote, rsGenders, rsBefore, rdSeen,
                   defaultCalendar, serviceMappings>>

\* the loop is over: the status is updated and syncLocation returns success
ResyncReturns ==
    /\ rsPc = "upsert"
    /\ rsWrites = <<>>
    /\ rsPc' = "done"
    /\ UNCHANGED <<rsRemote, rsGenders, rsWrites, rsBefore, rdSeen, dbVars,
                   dirVars>>

\* a request resolves the calendars of a service while the tables are as
\* they are: POST /check-availability with a service only, or the planner
\* for one service of a package
ResolveMeanwhile ==
    /\ \E route \in {"check-availability", "planner"}, service \in Services :
        rdSeen' = <<[route |-> route, service |-> service, during |-> rsPc,
                     synced |-> Range(getSyncedCalendarsForService(service)),
                     calendars |->
                         IF route = "planner"
                         THEN Range(resolveServiceCalendars(service))
                         ELSE {e.calendar_id : e \in Range(withDefaultCalendar(
                                  resolveCalendars(<<>>, <<service>>).entries))}]>>
    /\ UNCHANGED <<rsPc, rsRemote, rsGenders, rsWrites, rsBefore, dbVars,
                   dirVars>>

ResyncNext ==
    /\ \/ ResyncFetched
       \/ ResyncThrows
       \/ ResyncReadGenders
       \/ ResyncClearMembers
       \/ ResyncClearCalendars
       \/ ResyncUpsertRow
       \/ ResyncReturns
       \/ ResolveMeanwhile
    /\ UNCHANGED <<svVars, timeVars, refVars, rfVars, syncVars, bkSelected>>
    /\ UNCHANGED <<envVars, planVars, bookVars, availVars, fetchVars, cacheVars, staffVars, dateVars>>

SpecResync == StaffInit /\ [][ResyncNext]_vars

----------------------------------------------------------------------------
(* Claims about the synced tables during and after a sync *)

\* C32 as stated: when syncLocation has returned, every team member
\* (calendar, user) that had a gender before the call and is still in the
\* table has the gender it had.
C32_AsStated ==
    rsPc = "done" =>
        \A i \in DOMAIN rsBefore[1].members, j \in DOMAIN teamMembers :
            /\ rsBefore[1].members[i].gender # <<>>
            /\ sameMember(rsBefore[1].members[i], teamMembers[j])
            => teamMembers[j].gender = rsBefore[1].members[i].gender

----------------------------------------------------------------------------
(* Claims about the appointment ids of a package booking *)

\* C33 as stated: every entry of appointments with status confirmed carries
\* an appointment id returned by the remote calendar, so a create-appointment
\* answer without an id is never recorded as confirmed.
C33_AsStated ==
    \A i \in DOMAIN bkAppointments :
        bkAppointments[i].status = "confirmed" =>
            bkAppointments[i].appointment_id # <<>>

----------------------------------------------------------------------------
(* Claims about the time preference any *)

\* C34 as stated: a search answered for time preference any applies no
\* time-of-day filter, so its result is the one collectSlots builds from
\* the same slots without a time preference, slots before 12:15 included.
C34_AsStated ==
    (AvailAnswered /\ avPref = <<"any">>) =>
        avResponse[1].slots =
            collectSlots(avAvailability, avDateFilter, <<>>, avTargetMins)

----------------------------------------------------------------------------
(* The planner called ten minutes before the first slot of the day *)

\* the request is made at 09:50 on day 3 of the calendar's wall clock, on a
\* server in the calendar's timezone or on a server ten hours east of it
NearEnvChoices ==
    {[now |-> 3 * MinutesPerDay + 590, calOff |-> 0, srvOff |-> 0],
     [now |-> 3 * MinutesPerDay + 1190, calOff |-> 0 - 600, srvOff |-> 0]}

PlanNearInit ==
    /\ \E e \in NearEnvChoices :
        /\ realNow = e.now
        /\ calOff = e.calOff
        /\ srvOff = e.srvOff
    /\ DbInit /\ PlanIdle /\ BookIdle /\ AvailIdle /\ FetchIdle /\ CacheIdle
    /\ DirIdle /\ StaffIdle /\ DateIdle /\ MoreIdle

SpecPlanNear == PlanNearInit /\ [][PlanNext]_vars

----------------------------------------------------------------------------
(* Claims about greedy placement with one calendar per service *)

OneCalendarEach ==
    \A s \in Range(plServices) : Len(plServiceCalendars[s]) = 1

SlotsAscending ==
    \A c \in DOMAIN plCalendarSlots :
        \A d \in DOMAIN plCalendarSlots[c] :
            \A i, j \in DOMAIN plCalendarSlots[c][d] :
                i < j => SlotEpoch(plCalendarSlots[c][d][i])
                             < SlotEpoch(plCalendarSlots[c][d][j])

\* some placement of the services from service i on: one slot of the date
\* per service, matching the time preference and starting at or after
\* earliest, each next one at or after the end plus buffer of the one before
RECURSIVE ValidPlacement(_, _, _)
ValidPlacement(date, i, earliest) ==
    IF i > Len(plServices) THEN TRUE
    ELSE \E c \in Range(plServiceCalendars[plServices[i]]) :
            \E slot \in Range(dateSlotsOf(plCalendarSlots, c, date)) :
                /\ SlotEpoch(slot) >= earliest
                /\ matchesTimePreference(plPref, slot)
                /\ ValidPlacement(date, i + 1,
                       SlotEpoch(slot) + getCalendarTiming(c).duration
                           + getCalendarTiming(c).buffer)

\* C35 as stated: when every service has exactly one candidate calendar and
\* the slots of every calendar and date are ascending, the planner accepts
\* an examined date if and only if some placement of the services exists on
\* it whose slots match the time preference, start at or after now + 15
\* minutes and keep each service's end plus buffer before the next start.
C35_AsStated ==
    (plPc = "done" /\ OneCalendarEach /\ SlotsAscending) =>
        \A d \in Range(plExamined) :
            d \in ResultDates <=> ValidPlacement(d, 1, realNow + BUFFER_MS)

----------------------------------------------------------------------------
(* Claims about the two time-preference tests *)

\* C36 as stated: for every slot the search has fetched and for each of
\* morning and afternoon, the planner's test matchesTimePreference accepts
\* the slot if and only if the test of the availability search accepts it,
\* slots from 12:00 to 12:14 included.
C36_AsStated ==
    \A p \in {"morning", "afternoon"} :
        \A q \in AvailEntries :
            LET slot == avAvailability[q[1]][q[2]].slot
            IN matchesTimePreference(p, slot) <=> timeFilterFn(<<p>>, slot)

----------------------------------------------------------------------------
(* Claims about the two date resolvers *)

\* C37 as stated: on every reference weekday, for every phrase a request
\* has sent that both resolvers recognise, parseDateRequest selects exactly
\* the date parseRequestedDate returns, also when today is the weekday the
\* phrase names.
C37_AsStated ==
    (dtCall # <<>> /\ dtCall[1].input # <<>>) =>
        LET input == dtCall[1].input[1]
            selected == parseDateRequest(input)
            returned == parseRequestedDate(input)
        IN (selected # <<>> /\ returned # <<>>) =>
               selected[1] = OnDates({returned[1]})

----------------------------------------------------------------------------
(* Claims about a request that runs during a sync *)

\* the active calendars of a table that offer a service
ActiveFor(cals, service) ==
    {c \in DOMAIN cals : cals[c].is_active /\ service \in cals[c].offers}

\* C38 as stated: a calendar resolution made while syncLocation runs finds
\* every calendar of its service that was synced before the sync and is
\* synced after it, so it never falls back to the default calendar for
\* such a service.
C38_AsStated ==
    (/\ rdSeen # <<>>
     /\ rsRemote # <<>>
     /\ rdSeen[1].during \in {"fetched", "read", "membersCleared", "upsert"}) =>
        LET service == rdSeen[1].service
            kept == ActiveFor(rsBefore[1].cals, service)
                        \cap ActiveFor(rsRemote[1].cals, service)
        IN /\ kept \subseteq rdSeen[1].synced
           /\ kept # {} => rdSeen[1].calendars \subseteq rdSeen[1].synced

----------------------------------------------------------------------------
(* Claims about the slots of a staff search *)

\* the active synced calendars assigned to the staff member asked for,
\* offering the service when one is given
StaffOwn(r) ==
    StaffAssigned(r.staff_name[1])
        \cap (IF r.service # <<>> THEN SyncedFor(r.service[1]) ELSE ActiveSynced)

\* a search by staff name that matched a team member has answered
StaffNamed ==
    /\ stPc = "done"
    /\ stRequest[1].staff_name # <<>>
    /\ StaffAssigned(stRequest[1].staff_name[1]) # {}

\* C39 as stated: when staff_name matches a team member, every slot of the
\* answer is on a calendar assigned to that staff member, and on a calendar
\* offering the service when a service is given as well.
C39_AsStated ==
    StaffNamed =>
        LET r == stRequest[1]
        IN \A i \in DOMAIN stResponse[1].slots :
            LET c == stResponse[1].slots[i].calendar_id
            IN /\ c \in StaffAssigned(r.staff_name[1])
               /\ r.service # <<>> =>
                    /\ c \in DOMAIN syncedCalendars
                    /\ r.service[1] \in syncedCalendars[c].offers

----------------------------------------------------------------------------
(* Claims about the date of a package booking *)

\* the steps of the plan that a create-appointment call was sent for
CreateSteps == {bkCalls[i].step : i \in {j \in DOMAIN bkCalls : bkCalls[j].call = "create"}}

\* C40 as stated: when the package booking request supplies selected_date,
\* every create-appointment call is for a slot on the date selected_date
\* denotes; a selected_date that does not resolve leaves no such call.
C40_AsStated ==
    (bkSelected # <<>> /\ bkSelected[1].kind = "selected") =>
        \A i \in CreateSteps :
            /\ bkSelected[1].date # <<>>
            /\ SlotDateKey(bkPlan[1].slots[i].startTime) = bkSelected[1].date[1]

============================================================================
